---- MODULE Spec2Model ----
(***************************************************************************)
(* Per-frame simulation step of the tank game: the Physics system of        *)
(* src/system/physics.js together with the modules it calls (enemy          *)
(* spawner, boost spawner, shooting, enemy AI, collision resolver) and the  *)
(* host callbacks of src/App.js that own level, health and the enemy and    *)
(* wall sets.                                                               *)
(*                                                                          *)
(* Geometry is supplied by the environment: whether two bodies overlap,     *)
(* whether an enemy is within shooting radius, and where Math.random puts a *)
(* candidate position are inputs of the actions.  Everything the code       *)
(* decides from those inputs (cooldowns, flags, health, registry keys) is   *)
(* computed here as the code computes it.                                   *)
(*                                                                          *)
(* The collisionStart event of the physics library is an input as well: the *)
(* listener of setupCollisionEvents may be invoked for the pair (boost,     *)
(* tank) while the body of a spawned boost exists.  No statement of the     *)
(* sources adds a body to engine.world, so whether the library ever raises  *)
(* the event is outside the code modelled here.                             *)
(*                                                                          *)
(* The frames are explored in several environments: Spec (combat in an     *)
(* arena too crowded for a boost), SpecBoost (the boost life cycle with no  *)
(* shot fired), SpecSiege (only the enemies fire, until the tank is         *)
(* beaten), SpecVolley (only the player fires, two projectiles at a time),  *)
(* SpecFault (the shot sound can throw), SpecGuard (a registry without the  *)
(* physics engine or without the tank) and SpecLayout (the screen is        *)
(* rotated).  The spawners and the wall generator are applied to drawn      *)
(* inputs in SpecGen, SpecWalls, SpecSpawn and SpecWin, the removal paths   *)
(* in SpecRemoval and the enemy AI with positions in SpecAI.  SpecFire      *)
(* explores the keys of the projectiles, SpecProbe one projectile whose     *)
(* probe touches several bodies and SpecHealth the health of the player.    *)
(* Persistent storage is explored in SpecProgress (sessions of the app),    *)
(* SpecScores (addHighScore), SpecRush (updateScore called again before     *)
(* the storage has answered) and SpecClear (clearAllGameData).              *)
(***************************************************************************)
EXTENDS Integers, Sequences, FiniteSets, TLC

----------------------------------------------------------------------------
(* Bounds of the model *)

MaxLevel == 3          \* highest level number explored by the tick model
MaxGenLevel == 8       \* highest level handed to the spawner on its own
StreamLen == 3         \* period of the modelled Math.random stream
MaxShots == 1          \* projectile keys held by one registry at a time
VolleyShots == 2       \* the same, in the frames of a volley of the player
VolleyGaps == 2        \* long gaps in a run of volleys
MaxContacts == 1       \* bodies one projectile probe touches in one update
HitBoundary == 1      \* boundary walls that projectiles can reach
HitWalls == 1          \* interior walls that projectiles can reach
SmallSpan == 600       \* tick time explored with the short frame deltas
MaxGaps == 1           \* long gaps between frames in one run
SiegeGaps == 3         \* long gaps in a run where only the enemies fire
WallPrefixLen == 2     \* random draws chosen freely before the fair tail of the stream
SmallArenaWidth == 200 \* an arena with no room for a wall 160 units from the tank
SmallArenaHeight == 150

(* Program constants *)

PlayerShotDelay == 500
BaseShotDelay == 3000
DebounceInterval == 150
BoostLifetime == 20000
ShotDamage == 50
ScoreStep == 100
TankDamage == 25
BaseHealth == 100
HealthIncreaseRate == 2
BaseEnemyCount == 1
MaxEnemies == 3
MaxAttempts == 10
MinDistanceBetweenEnemies == 50
InitialMinDistancePct == 85
LevelReductionPct == 2
NumRandomWalls == 5
WallHealth == 100
MinWallDistance == 70
MinWallTankDistance == 160
BoostBonus == 50
MaxUserHealth == 400
StartHealth == 100
ArenaWidth == 800
ArenaHeight == 600
TankStartX == 100
TankStartY == 100
StartTime == 5000

Min(a, b) == IF a < b THEN a ELSE b
Max(a, b) == IF a > b THEN a ELSE b

----------------------------------------------------------------------------
(* Registry keys.  A key is the string kind ++ id; the code dispatches on   *)
(* the type of an entity with key.startsWith(prefix).                        *)

Chars(s) ==
    CASE s = "tank"         -> <<"t","a","n","k">>
      [] s = "boost"        -> <<"b","o","o","s","t">>
      [] s = "enemy"        -> <<"e","n","e","m","y">>
      [] s = "enemy_"       -> <<"e","n","e","m","y","_">>
      [] s = "enemyShot_"   -> <<"e","n","e","m","y","S","h","o","t","_">>
      [] s = "shot_"        -> <<"s","h","o","t","_">>
      [] s = "bullet_"      -> <<"b","u","l","l","e","t","_">>
      [] s = "wall"         -> <<"w","a","l","l">>
      [] s = "wall_"        -> <<"w","a","l","l","_">>
      [] s = "random_wall"  -> <<"r","a","n","d","o","m","_","w","a","l","l">>
      [] s = "random_wall_" -> <<"r","a","n","d","o","m","_","w","a","l","l","_">>

Key(kind, id) == [kind |-> kind, id |-> id]

StartsWith(key, prefix) ==
    LET k == Chars(key.kind)
        p == Chars(prefix)
    IN  Len(p) <= Len(k) /\ SubSeq(k, 1, Len(p)) = p

TankKey == Key("tank", 0)
BoostKey == Key("boost", 0)
EnemyKey(i) == Key("enemy_", i)
RandomWallKey(i) == Key("random_wall_", i)
BoundaryWallKey(i) == Key("wall_", i)

----------------------------------------------------------------------------
(* JavaScript numbers: a value or NaN.  Reading a property of a function,   *)
(* or a hoisted variable before its assignment, gives undefined, and        *)
(* arithmetic on undefined gives NaN; every comparison with NaN is false.   *)

Num(v) == [nan |-> FALSE, v |-> v]
NaN == [nan |-> TRUE, v |-> 0]

NumSub(a, b) == IF a.nan \/ b.nan THEN NaN ELSE Num(a.v - b.v)
NumMax(a, b) == IF a.nan \/ b.nan THEN NaN ELSE Num(Max(a.v, b.v))

\* Math.sqrt((x2 - x1) ** 2 + (y1 - y2) ** 2), kept as its square
calculateDistance(x1, y1, x2, y2) ==
    IF x1.nan \/ y1.nan \/ x2.nan \/ y2.nan THEN NaN
    ELSE Num((x2.v - x1.v) * (x2.v - x1.v) + (y1.v - y2.v) * (y1.v - y2.v))

\* distance < bound, for a squared distance and a bound in tenths of a unit
DistLess(d, bound10) ==
    IF d.nan \/ bound10.nan THEN FALSE
    ELSE d.v * 100 < bound10.v * bound10.v

NumMul(a, b) == IF a.nan \/ b.nan THEN NaN ELSE Num(a.v * b.v)

----------------------------------------------------------------------------
(* Enemy spawner: generateEnemies of utils/levels.js *)

EmptyMap == [k \in {} |-> 0]

\* The n-th position drawn from Math.random: a stream of period Len(stream)
Draw(stream, n) == stream[(n % Len(stream)) + 1]

\* The value entities.onBoostCollected, which Physics hands to the spawner
\* as tankPosition: a function, whose x and y are undefined
FunctionValue == [x |-> NaN, y |-> NaN]
Position(x, y) == [x |-> Num(x), y |-> Num(y)]

\* `const minDistancePercentage` declared inside generateEnemies after its
\* first use: the read at the Math.max line is a read before initialisation.
\* An engine that enforces the temporal dead zone throws there; a build that
\* hoists the declaration reads undefined.
LocalMinDistancePercentage == NaN

isValidPosition(x, y, existingEnemies, tankPosition, appDimensions, minDistanceToTank) ==
    IF x < 0 \/ x > appDimensions.width \/ y < 0 \/ y > appDimensions.height
    THEN FALSE
    ELSE IF DistLess(calculateDistance(Num(x), Num(y), tankPosition.x, tankPosition.y),
                     minDistanceToTank)
    THEN FALSE
    ELSE ~ \E key \in DOMAIN existingEnemies :
              DistLess(calculateDistance(Num(x), Num(y),
                                         Num(existingEnemies[key].x),
                                         Num(existingEnemies[key].y)),
                       Num(MinDistanceBetweenEnemies * 10))

\* The level-scaled minimum distance to the tank, in tenths of a unit
\* (percentages of a side that is a multiple of ten)
MinDistanceToTank(level, appDimensions) ==
    LET shorter == Min(appDimensions.width, appDimensions.height) \div 10
        maxDistanceFromTank == shorter * InitialMinDistancePct
        distanceReduction == ((level - 1) \div 3) * LevelReductionPct * shorter
    IN  NumMax(Num(maxDistanceFromTank - distanceReduction),
               NumMul(LocalMinDistancePercentage, Num(shorter)))

\* while (!validPosition && attempts < maxAttempts)
RECURSIVE FindPosition(_, _, _, _, _, _, _)
FindPosition(existingEnemies, tankPosition, appDimensions, minDistanceToTank, stream, drawn, attempts) ==
    IF attempts >= MaxAttempts
    THEN [validPosition |-> FALSE, x |-> 0, y |-> 0, drawn |-> drawn]
    ELSE LET p == Draw(stream, drawn)
         IN  IF isValidPosition(p[1], p[2], existingEnemies, tankPosition,
                                appDimensions, minDistanceToTank)
             THEN [validPosition |-> TRUE, x |-> p[1], y |-> p[2], drawn |-> drawn + 1]
             ELSE FindPosition(existingEnemies, tankPosition, appDimensions,
                               minDistanceToTank, stream, drawn + 1, attempts + 1)

\* for (let i = 0; i < numberOfEnemies; i++)
RECURSIVE PlaceEnemies(_, _, _, _, _, _, _, _, _)
PlaceEnemies(i, numberOfEnemies, enemyHealth, placedSoFar, tankPosition, appDimensions, minDistanceToTank, stream, drawn) ==
    IF i >= numberOfEnemies THEN placedSoFar
    ELSE LET found == FindPosition(placedSoFar, tankPosition, appDimensions,
                                   minDistanceToTank, stream, drawn, 0)
             placed == IF found.validPosition
                       THEN placedSoFar @@ (EnemyKey(i) :>
                                [health |-> enemyHealth, x |-> found.x, y |-> found.y,
                                 lastShotTime |-> 0])
                       ELSE placedSoFar
         IN  PlaceEnemies(i + 1, numberOfEnemies, enemyHealth, placed, tankPosition,
                          appDimensions, minDistanceToTank, stream, found.drawn)

generateEnemies(level, appDimensions, tankPosition, stream, tdzEnforced) ==
    LET numberOfEnemies == Min(BaseEnemyCount + ((level - 1) \div 2), MaxEnemies)
        enemyHealth == BaseHealth + (level - 1) * HealthIncreaseRate
    IN  IF tdzEnforced
        THEN EmptyMap    \* ReferenceError, caught: return {}
        ELSE PlaceEnemies(0, numberOfEnemies, enemyHealth, EmptyMap, tankPosition,
                          appDimensions, MinDistanceToTank(level, appDimensions),
                          stream, 0)

\* Candidate positions the random stream is drawn from
SamplePoints == { <<100, 100>>, <<130, 100>>, <<700, 500>>, <<750, 500>> }
Streams == [1..StreamLen -> SamplePoints]
Arena == [width |-> ArenaWidth, height |-> ArenaHeight]

----------------------------------------------------------------------------
(* Win test: checkAllEnemiesDefeated of system/physics.js *)

checkAllEnemiesDefeated_ge(registry) ==
    ~ \E key \in DOMAIN registry :
          StartsWith(key, "enemy_") /\ registry[key].health >= 0

checkAllEnemiesDefeated(registry) ==
    ~ \E key \in DOMAIN registry :
          StartsWith(key, "enemy_") /\ registry[key].health > 0

----------------------------------------------------------------------------
(* State *)

VARIABLES
    now,                 \* time.current of the last frame (one clock for both time sources)
    tdzEnforced,         \* the engine throws on a read before initialisation
    savedLevel,          \* level number held in persistent storage
    running, paused, showWinMenu,      \* App screen state
    userHealth,          \* userHealth.current
    level,               \* level.current
    enemies,             \* enemies.current: key -> enemy entity
    walls,               \* walls.current: key -> wall entity
    orientationChange,   \* orientationChange.current
    screenDimension,     \* appDimensions.current
    bulletRef,           \* bulletRef.current
    entities,            \* keys of the registry the engine holds between frames
    boost,               \* the entity under the key boost, when present
    world,               \* boost bodies that can still raise collisionStart
    shots,               \* subscribed afterUpdate closures, in subscription order
    hook,                \* the collisionStart closure and the registry it captured
    bounds,              \* entities.bounds
    lastTankShotTime, lastEnemyShotTimes,   \* trackers of the shooting module
    lastUpdate,          \* debounce stamp of the enemy AI
    log,                 \* console lines, sounds, engine updates and projectiles
                         \* found outside the arena in the last step
    calls,               \* handleShot invocations of the last step
    ownFire,             \* per shooter, time of the last projectile it created
    genCount,            \* frames that ran the spawner since the host cleared `generated`
    boostSpawns,         \* boosts spawned since the enemies of the level were generated
    lastCollected,       \* the boost collected last and how often it was collected
    scoring,             \* points updateScore added to score.current in the last step,
                         \* and the contacts of player projectiles with enemies in it
    call, ret, done      \* a single function application: input, result, applied

hostVars == <<running, paused, showWinMenu, userHealth, level, enemies, walls,
              orientationChange, screenDimension, bulletRef, savedLevel>>
engineVars == <<entities, boost, world, shots, hook, bounds>>
moduleVars == <<lastTankShotTime, lastEnemyShotTimes, lastUpdate>>
historyVars == <<log, calls, ownFire, genCount, boostSpawns, lastCollected, scoring>>
pureVars == <<call, ret, done>>
vars == <<now, tdzEnforced, hostVars, engineVars, moduleVars, historyVars, pureVars>>

NoBoost == [spawnTime |-> 0]
NoCall == [op |-> "none"]
NoScoring == [added |-> 0, hits |-> 0]
\* entities.bounds of a registry that has none yet
NoBounds == [min |-> [x |-> 0, y |-> 0], max |-> [x |-> 0, y |-> 0]]

\* level.current as a record; an absent flag reads as false
LevelRecord(n) ==
    [level |-> n, generated |-> FALSE, boostSpawned |-> FALSE, permanentRemoved |-> FALSE]

\* The entities prop of a newly mounted GameEngine: a fresh engine and the tank
MountEngine ==
    /\ entities' = {TankKey}
    /\ boost' = NoBoost
    /\ world' = {}
    /\ shots' = <<>>
    /\ hook' = "none"
    /\ bounds' = NoBounds

HostInit ==
    /\ now = StartTime
    /\ running = FALSE /\ paused = FALSE /\ showWinMenu = FALSE
    /\ userHealth = StartHealth
    /\ level = LevelRecord(1)
    /\ enemies = EmptyMap /\ walls = EmptyMap
    /\ orientationChange = FALSE
    /\ screenDimension = Arena
    /\ bulletRef = "null"
    /\ entities = {TankKey} /\ boost = NoBoost /\ world = {} /\ shots = <<>>
    /\ hook = "none" /\ bounds = NoBounds
    /\ lastTankShotTime = 0 /\ lastEnemyShotTimes = EmptyMap /\ lastUpdate = 0
    /\ log = {} /\ calls = {} /\ ownFire = EmptyMap
    /\ genCount = 0 /\ boostSpawns = 0
    /\ lastCollected = [id |-> 0, n |-> 0]
    /\ scoring = NoScoring

----------------------------------------------------------------------------
(* One frame of the Physics system, as a chain of steps over the data the   *)
(* frame works on.  f is that data; t is time.current of the frame.         *)

Lookup(map, k) == IF k \in DOMAIN map THEN map[k] ELSE 0
Logged(f, line) == [f EXCEPT !.log = @ \cup {line}]

\* updateLevelAndScore: level.current and the stored level change together
SetCurrentLevel(f, data) == [f EXCEPT !.level = data, !.savedLevel = data.level]

\* Only the first HitWalls interior walls lie in the path of projectiles
HitWallKeys == {RandomWallKey(i) : i \in 0..(HitWalls - 1)}

\* Walls a projectile's probe can overlap: those interior walls and the first
\* HitBoundary boundary walls
ReachedWalls == HitWallKeys \cup {BoundaryWallKey(i) : i \in 1..HitBoundary}

\* Object.keys(entities) restricted to walls, in the order of the object
\* generateBoundaryWalls returns
WallOrder ==
    [i \in 1..(4 + NumRandomWalls) |->
        IF i <= 4 THEN BoundaryWallKey(i) ELSE RandomWallKey(i - 5)]

generateBoundaryWalls ==
    [k \in {BoundaryWallKey(i) : i \in 1..4}
           \cup {RandomWallKey(i) : i \in 0..(NumRandomWalls - 1)}
        |-> [health |-> WallHealth]]

\* setupScreenDimensions: the dimensions of the screen inset by 10 on every
\* side, or those of the window when the screen has no width or no height
setupScreenDimensions(dimension) ==
    IF dimension.width # 0 /\ dimension.height # 0
    THEN [min |-> [x |-> 10, y |-> 10],
          max |-> [x |-> dimension.width - 10, y |-> dimension.height - 10]]
    ELSE [min |-> [x |-> 10, y |-> 10],
          max |-> [x |-> ArenaWidth - 10, y |-> ArenaHeight - 10]]

\* const bounds = entities.bounds || setupScreenDimensions(entities);
\* entities.bounds = bounds
StepBounds(f) ==
    IF f.bounds # NoBounds THEN f
    ELSE [f EXCEPT !.bounds = setupScreenDimensions(screenDimension)]

\* Physics: the orientation branch.  The spread makes a new registry object,
\* so every closure created earlier holds a registry that is no longer live,
\* and the wall objects in it are no longer those of walls.current.
StepOrientation(f) ==
    IF f.orientationChange
    THEN [f EXCEPT !.walls = generateBoundaryWalls,
                   !.orientationChange = FALSE,
                   !.entities = @ \cup DOMAIN generateBoundaryWalls,
                   !.shots = [i \in DOMAIN @ |-> [@[i] EXCEPT !.walls = {}]],
                   !.spread = TRUE]
    ELSE f

NeedsGeneration_always(currentLevel) == TRUE

NeedsGeneration(currentLevel) == ~currentLevel.generated

\* The fields of a generated enemy that later steps read
EnemyState(e) == [health |-> e.health, lastShotTime |-> e.lastShotTime]

\* setCurrentEnemies, setBoundaryWalls and setCurrentLevel after generation
SetGenerated(f, currentLevel, generatedEnemies) ==
    Logged(SetCurrentLevel(
             [f EXCEPT !.enemies = [k \in DOMAIN generatedEnemies |->
                                       EnemyState(generatedEnemies[k])],
                       !.walls = generateBoundaryWalls,
                       !.genCount = Min(@ + 1, 2),
                       !.boostSpawns = 0,
                       !.ownFire = [k \in DOMAIN @ \cap {TankKey} |-> @[k]]],
             [currentLevel EXCEPT !.generated = TRUE, !.boostSpawned = FALSE]),
           "generateEnemies")

\* Physics: enemy and wall generation for a level not yet generated
StepGenerate(f, currentLevel, stream) ==
    IF NeedsGeneration(currentLevel)
    THEN SetGenerated(f, currentLevel,
                      generateEnemies(currentLevel.level, screenDimension, FunctionValue, stream,
                                      tdzEnforced))
    ELSE f

\* Physics: boost spawn; boostFits tells whether spawnBoost found a position
StepSpawnBoost(f, currentLevel, t, boostFits) ==
    IF currentLevel.generated /\ ~currentLevel.boostSpawned
                              /\ ~currentLevel.permanentRemoved
    THEN IF boostFits
         THEN Logged(SetCurrentLevel(
                       [f EXCEPT !.entities = @ \cup {BoostKey},
                                 !.boost = [spawnTime |-> t],
                                 !.world = @ \cup {t},
                                 !.boostSpawns = Min(@ + 1, 2)],
                       [currentLevel EXCEPT !.boostSpawned = TRUE,
                                            !.permanentRemoved = FALSE]),
                     "Boost spawned")
         ELSE Logged(f, "Could not find a valid position for boost")
    ELSE f

ExpiryDue_ge(age) == age >= BoostLifetime

ExpiryDue(age) == age > BoostLifetime

ExpiredLevel_keep(lv) == [lv EXCEPT !.permanentRemoved = TRUE]

ExpiredLevel(lv) == [lv EXCEPT !.boostSpawned = FALSE, !.permanentRemoved = TRUE]

\* Physics: removal of a boost older than its lifetime
StepExpire(f, t) ==
    IF BoostKey \in f.entities /\ ExpiryDue(t - f.boost.spawnTime)
    THEN Logged(SetCurrentLevel(
                  [f EXCEPT !.world = @ \ {f.boost.spawnTime},
                            !.entities = @ \ {BoostKey},
                            !.boost = NoBoost],
                  ExpiredLevel(f.level)),
                "Boost removed due to time")
    ELSE f

AddHealth_uncapped(health) == health + BoostBonus

\* Math.min(userHealth.current + 50, 400)
AddHealth(health) == Min(health + BoostBonus, MaxUserHealth)

\* App.onBoostCollected, with the record of which boost was collected
OnBoostCollected(f, id) ==
    Logged([f EXCEPT !.userHealth = AddHealth(@),
                     !.lastCollected = IF @.id = id THEN [id |-> id, n |-> Min(@.n + 1, 2)]
                                       ELSE [id |-> id, n |-> 1]],
           "Boost collected")

\* handleCollision for a pair (boost body, tank body); body is the boost body.
\* The closure deletes the key boost from the registry it captured, which is
\* the live one only in the frame after the one that registered the closure.
DeleteBoost(f, live) ==
    IF live THEN [f EXCEPT !.entities = @ \ {BoostKey}, !.boost = NoBoost] ELSE f

handleCollision(f, body) ==
    SetCurrentLevel(
        DeleteBoost([OnBoostCollected(Logged(f, "Boost collision detected!"), body)
                        EXCEPT !.world = @ \ {body}],
                    hook = "fresh" /\ ~f.spread),
        [f.level EXCEPT !.boostSpawned = FALSE])

\* A projectile closure: kind and t make its key; fresh says that the registry
\* it captured was the one returned by the previous frame; walls are the
\* reachable walls of walls.current still present in the captured registry.
ShotKey(sh) == Key(sh.kind, sh.t)
\* the contact of a projectile whose position left the arena
Outside == [kind |-> "outside", id |-> 0]
ShotKeys(keys) == {k \in keys : k.kind \in {"shot_", "enemyShot_"}}

SeenWalls(f, sh) ==
    IF sh.fresh THEN (IF f.spread THEN {} ELSE f.entities \cap ReachedWalls)
    ELSE sh.walls

\* App.updateScore
updateScore(f) ==
    [f EXCEPT !.scoring.added = @ + ScoreStep, !.log = @ \cup {"updateScore"}]

CanBeHit_always(health) == TRUE

\* if (entity.health > 0)
CanBeHit(health) == health > 0

\* The body of that test: damage, removal, and the score when the enemy is down
DamageEnemy(f, e) ==
    LET g == [f EXCEPT !.enemies[e].health = @ - ShotDamage,
                       !.removed = TRUE,
                       !.log = @ \cup {"collision"}]
    IN  IF g.enemies[e].health <= 0 THEN Logged(updateScore(g), "explosion") ELSE g

\* ShotRenderer.update: hits on AI entities, only for the player's projectiles
RECURSIVE HitEnemies(_, _, _, _)
HitEnemies(f, sh, contact, i) ==
    IF i >= MaxEnemies THEN f
    ELSE LET e == EnemyKey(i)
             g == IF e \in contact /\ e \in DOMAIN f.enemies /\ sh.kind = "shot_"
                  THEN LET h == [f EXCEPT !.scoring.hits = @ + 1]
                       IN  IF CanBeHit(f.enemies[e].health) THEN DamageEnemy(h, e) ELSE h
                  ELSE f
         IN  HitEnemies(g, sh, contact, i + 1)

\* delete entities[key] for a wall at or below zero, on the captured registry
DeleteWall(f, sh, live, w) ==
    IF f.walls[w].health <= 0
    THEN IF live THEN [f EXCEPT !.entities = @ \ {w}]
         ELSE [f EXCEPT !.shots = [j \in 1..Len(@) |->
                                     IF @[j].t = sh.t /\ ~@[j].fresh
                                     THEN [@[j] EXCEPT !.walls = @ \ {w}]
                                     ELSE @[j]]]
    ELSE f

IsShotWall_any(key) == StartsWith(key, "wall") \/ StartsWith(key, "random_wall")

\* if (key.startsWith('random_wall'))
IsShotWall(key) == StartsWith(key, "random_wall")

\* ShotRenderer.update: hits on walls, by either kind of projectile
RECURSIVE HitWallsLoop(_, _, _, _, _)
HitWallsLoop(f, sh, live, contact, i) ==
    IF i > Len(WallOrder) THEN f
    ELSE LET w == WallOrder[i]
             g == IF /\ IsShotWall(w) /\ w \in contact
                     /\ w \in SeenWalls(f, sh) /\ w \in DOMAIN f.walls
                  THEN DeleteWall([f EXCEPT !.walls[w].health = @ - ShotDamage,
                                            !.removed = TRUE],
                                  sh, live, w)
                  ELSE f
         IN  HitWallsLoop(g, sh, live, contact, i + 1)

\* ShotRenderer.update: an enemy projectile meeting the tank.  setUserID
\* stores level 1 and score 0 with the new identity
HitTank(f, sh, contact) ==
    IF sh.kind = "enemyShot_" /\ TankKey \in contact /\ TankKey \in f.entities
    THEN IF f.userHealth > 0
         THEN [f EXCEPT !.userHealth = @ - TankDamage, !.removed = TRUE,
                        !.log = @ \cup {"collision"}]
         ELSE [f EXCEPT !.removed = TRUE, !.savedLevel = 1,
                        !.log = @ \cup {"explosion", "setUserID"}]
    ELSE f

\* One afterUpdate call of the closure at position i of the subscription list
LeaveArena(f, contact) ==
    IF Outside \in contact THEN Logged([f EXCEPT !.removed = TRUE], "outside") ELSE f

\* removeEntity on the captured registry, for a projectile marked removed
RemoveEntity(f, i, live, key) ==
    IF f.removed
    THEN [f EXCEPT !.gone = @ \cup {i},
                   !.entities = IF live THEN @ \ {key} ELSE @]
    ELSE f

UpdateShot(f, i, contact) ==
    LET sh == f.shots[i]
        live == sh.fresh /\ ~f.spread
        subscribed == IF sh.fresh THEN ShotKey(sh) \in f.entities ELSE TRUE
    IN  IF ~subscribed THEN [f EXCEPT !.gone = @ \cup {i}]
        ELSE RemoveEntity(
               LeaveArena(
                 HitTank(
                   HitWallsLoop(
                     HitEnemies([f EXCEPT !.removed = FALSE], sh, contact, 0),
                     sh, live, contact, 1),
                   sh, contact),
                 contact),
               i, live, ShotKey(sh))

RECURSIVE UpdateShots(_, _, _)
UpdateShots(f, contacts, i) ==
    IF i > Len(f.shots) THEN f
    ELSE UpdateShots(UpdateShot(f, i, contacts[i]), contacts, i + 1)

RECURSIVE Keep(_, _, _)
Keep(seq, gone, i) ==
    IF i > Len(seq) THEN <<>>
    ELSE (IF i \in gone THEN <<>> ELSE <<seq[i]>>) \o Keep(seq, gone, i + 1)

\* Matter.Engine.update: collisionStart listeners, then afterUpdate listeners.
\* Closures that found their key gone, or removed it, take no further part.
\* After the update every closure holds a registry that is no longer live
AgeShots(f) ==
    [f EXCEPT !.shots =
        Keep([i \in 1..Len(f.shots) |->
                 [f.shots[i] EXCEPT !.fresh = FALSE,
                                    !.walls = SeenWalls(f, f.shots[i])]],
             f.gone, 1)]

StepEngineUpdate(f, collisionStart, contacts) ==
    AgeShots(UpdateShots(
               [(IF collisionStart \in f.world /\ hook # "none"
                 THEN handleCollision(f, collisionStart) ELSE f)
                   EXCEPT !.gone = {}, !.log = @ \cup {"Engine.update"}],
               contacts, 1))

\* entities = {...entities, ...getCurrentEnemies(), ...getBoundaryWalls()}
StepMerge(f) ==
    [f EXCEPT !.entities = @ \cup DOMAIN f.enemies \cup DOMAIN f.walls]

\* The registry as an object: key -> entity
Registry(f) ==
    [k \in f.entities |->
        IF k \in DOMAIN f.enemies THEN f.enemies[k]
        ELSE IF k \in DOMAIN f.walls THEN f.walls[k]
        ELSE [kind |-> k.kind]]

StepWin_skipped(f) == f

\* setWin is App.handleWin
StepWin(f) ==
    IF checkAllEnemiesDefeated(Registry(f))
    THEN Logged([f EXCEPT !.showWinMenu = TRUE, !.running = FALSE], "setWin")
    ELSE f

Depleted_lt(health) == health < 0

Depleted(health) == health <= 0

checkAndRemoveDepletedEnemies(f) ==
    [f EXCEPT !.entities = {k \in @ : ~(StartsWith(k, "enemy_")
                                          /\ Depleted(Registry(f)[k].health))}]

checkAndRemoveDepletedWalls(f) ==
    [f EXCEPT !.entities = {k \in @ : ~(StartsWith(k, "random_wall")
                                          /\ Depleted(Registry(f)[k].health))}]

\* Delays are fractions: 500 for the player, 3000 / (1 + tier * 1.31) for enemies
PlayerDelay == [num |-> PlayerShotDelay, den |-> 1]
shotDelay(currentLevel) ==
    [num |-> BaseShotDelay * 100, den |-> 100 + 131 * ((currentLevel - 1) \div 3)]

\* entity.id of a shooter: neither the tank nor an enemy entity has the property
EntityId(shooter) == "undefined"

CooldownOver_always(elapsed, delay) == TRUE

CooldownOver_sameTime(elapsed, delay) == elapsed >= 0

\* currentTime - lastShotTime >= delay
CooldownOver(elapsed, delay) == elapsed * delay.den >= delay.num

\* currentTime - enemy.lastShotTime > shotDelay
AfterDelay(elapsed, delay) == elapsed * delay.den > delay.num

\* The shot entity enters the registry and the tracker of its kind is stamped
CreateShot(f, shooter, kind, t) ==
    [f EXCEPT !.entities = @ \cup {Key(kind, t)},
              !.shots = Append(@, [kind |-> kind, t |-> t, fresh |-> TRUE,
                                   walls |-> {}]),
              !.lastTankShotTime = IF kind = "shot_" THEN t ELSE @,
              !.lastEnemyShotTimes = IF kind = "shot_" THEN @
                                     ELSE (EntityId(shooter) :> t) @@ @,
              !.ownFire = (shooter :> t) @@ @,
              !.log = @ \cup {"shot"}]

\* The invocation, as the history keeps it
RecordCall(f, g, shooter, t, delay) ==
    [g EXCEPT !.calls = @ \cup
        {[shooter |-> shooter, t |-> t, delay |-> delay,
          prevOwn |-> Lookup(f.ownFire, shooter),
          won |-> "setWin" \in f.log,
          overwrote |-> Len(g.shots) > Len(f.shots)
                        /\ Key("shot_", t) \notin (g.entities \ f.entities)
                        /\ Key("enemyShot_", t) \notin (g.entities \ f.entities),
          created |-> Key("shot_", t) \in (g.entities \ f.entities)
                      \/ Key("enemyShot_", t) \in (g.entities \ f.entities),
          changed |-> <<g.lastTankShotTime, g.lastEnemyShotTimes>>
                        # <<f.lastTankShotTime, f.lastEnemyShotTimes>>]}]

\* createShot begins with soundManager.playSound('shot'); when the player of
\* that sound throws, handleShot ends there and the exception goes to its caller
handleShot(f, shooter, kind, t, delay) ==
    LET lastShotTime == IF kind = "shot_" THEN f.lastTankShotTime
                        ELSE Lookup(f.lastEnemyShotTimes, EntityId(shooter))
    IN  RecordCall(f,
                   IF CooldownOver(t - lastShotTime, delay)
                   THEN IF f.shotSound = "throws" THEN [f EXCEPT !.thrown = TRUE]
                        ELSE CreateShot(f, shooter, kind, t)
                   ELSE f,
                   shooter, t, delay)

\* catch (error) of one pass of the loop of updateEnemyAI
CatchEnemy(f) ==
    IF f.thrown THEN Logged([f EXCEPT !.thrown = FALSE], "Error updating enemy") ELSE f

\* updateEnemyAI: for (let i = 0; i <= total; i++)
RECURSIVE AILoop(_, _, _, _, _, _)
AILoop(f, t, delay, inRange, i, total) ==
    IF i > total THEN f
    ELSE LET e == EnemyKey(i)
             g == IF e \notin f.entities \/ e \notin DOMAIN f.enemies THEN f
                  ELSE IF f.enemies[e].health <= 0
                  THEN Logged([f EXCEPT !.entities = @ \ {e}], "explosion")
                  ELSE IF e \in inRange
                          /\ AfterDelay(t - f.enemies[e].lastShotTime, delay)
                  THEN CatchEnemy(handleShot([f EXCEPT !.enemies[e].lastShotTime = t],
                                             e, "enemyShot_", t, delay))
                  ELSE f
         IN  AILoop(g, t, delay, inRange, i + 1, total)

Debounced_never(elapsed) == FALSE

\* if (currentTime - lastUpdate < DEBOUNCE_INTERVAL) return
Debounced(elapsed) == elapsed < DebounceInterval

updateEnemyAI(f, t, total, currentLevel, inRange) ==
    IF Debounced(t - f.lastUpdate) THEN f
    ELSE IF TankKey \notin f.entities
    THEN Logged([f EXCEPT !.lastUpdate = t],
                "Invalid entities object or required properties are missing")
    ELSE AILoop([f EXCEPT !.lastUpdate = t], t, shotDelay(currentLevel), inRange,
                0, total)

\* Physics: the fire button
StepPlayer(f, t) ==
    IF bulletRef = "create-bullet" /\ TankKey \in f.entities
    THEN handleShot(f, TankKey, "shot_", t, PlayerDelay)
    ELSE f

\* collisionSystem, the loop over walls: a key that starts with bullet_ and
\* whose body overlaps a wall is removed and costs that wall 50; a wall at or
\* below zero is removed
BulletsHitWalls(f, wallHits) ==
    LET hits(w) == Cardinality({p \in wallHits : p[2] = w})
        down == {w \in DOMAIN f.walls :
                    hits(w) > 0 /\ f.walls[w].health - ShotDamage * hits(w) <= 0}
    IN  [f EXCEPT !.entities = (@ \ {p[1] : p \in wallHits}) \ down,
                  !.walls = [w \in DOMAIN @ |->
                               [@[w] EXCEPT !.health = @ - ShotDamage * hits(w)]]]

\* collisionSystem: out-of-bounds projectiles, the walls, then the boost under
\* the tank.  Without a tank, tank.body throws at the first wall or at the
\* boost, and the catch of Physics returns the registry as it is at that point.
collisionSystem(f, oob, overlap, wallHits) ==
    LET g == [f EXCEPT !.entities = @ \ oob, !.log = @ \cup {"collisionSystem"}]
    IN  IF TankKey \notin f.entities
           /\ \E k \in f.entities : StartsWith(k, "wall") \/ StartsWith(k, "random_wall")
                                     \/ k = BoostKey
        THEN Logged(g, "Error in Physics update")
        ELSE DeleteBoost(
               IF BoostKey \in f.entities /\ overlap
               THEN OnBoostCollected(
                      Logged(BulletsHitWalls(g, wallHits),
                             "Boost collision detected in wallCollision.js"),
                      f.boost.spawnTime)
               ELSE BulletsHitWalls(g, wallHits),
               BoostKey \in f.entities /\ overlap)

\* entities.physics.engine: the registry of a mounted GameEngine has it; a
\* call of Physics on a registry of its own has what the call says
EnginePresent == IF call.op = "Physics" THEN call.physics ELSE TRUE

\* Physics(entities, {time}, soundOn)
Physics(t, in) ==
    LET f0 == [entities |-> entities, boost |-> boost, world |-> world,
               shots |-> shots, level |-> level, savedLevel |-> savedLevel,
               enemies |-> enemies, walls |-> walls,
               orientationChange |-> orientationChange, userHealth |-> userHealth,
               showWinMenu |-> showWinMenu, running |-> running,
               lastTankShotTime |-> lastTankShotTime,
               lastEnemyShotTimes |-> lastEnemyShotTimes, lastUpdate |-> lastUpdate,
               log |-> {}, calls |-> {}, ownFire |-> ownFire, genCount |-> genCount,
               boostSpawns |-> boostSpawns, lastCollected |-> lastCollected,
               scoring |-> NoScoring,
               spread |-> FALSE, removed |-> FALSE, gone |-> {}, early |-> FALSE,
               shotSound |-> in.shotSound, thrown |-> FALSE,
               bounds |-> bounds]
        f1 == StepOrientation(StepBounds(f0))
        currentLevel == f1.level
        f2 == StepGenerate(f1, currentLevel, in.stream)
        f3 == StepSpawnBoost(f2, currentLevel, t, in.boostFits)
        f4 == StepExpire(f3, t)
        f5 == StepEngineUpdate(f4, in.collisionStart, in.contacts)
        f6 == StepWin(StepMerge(f5))
        f7 == checkAndRemoveDepletedWalls(checkAndRemoveDepletedEnemies(f6))
        f8 == updateEnemyAI(f7, t, currentLevel.level, currentLevel.level, in.inRange)
        f9 == StepPlayer(f8, t)
    IN  IF ~EnginePresent
        THEN Logged([f0 EXCEPT !.early = TRUE], "Entities or physics engine is missing.")
        ELSE IF f9.thrown
        THEN Logged([f9 EXCEPT !.early = TRUE], "Error in Physics update")
        ELSE collisionSystem(f9, in.oob, in.overlap, in.wallHits)

----------------------------------------------------------------------------
(* Actions *)

\* The GameEngine is rendered: running && health > 0 and no menu above it
EngineShown == running /\ ~paused /\ ~showWinMenu /\ userHealth > 0
GameOverShown == ~showWinMenu /\ ~paused /\ ~EngineShown /\ userHealth <= 0
MenuShown == ~showWinMenu /\ ~paused /\ ~running /\ userHealth > 0

\* Frame deltas: short frames that end on one of the given offsets from the
\* start or from a long gap, and up to maxGaps gaps as long as the lifetime of
\* a boost
ShortDeltas == {100, 400}
BoostOffsets == {o \in 1..SmallSpan : o % 100 = 0}
CombatOffsets == {100, 500}
FrameDeltas(offsets, maxGaps) ==
    {d \in ShortDeltas : ((now - StartTime) % BoostLifetime) + d \in offsets}
    \cup (IF now - StartTime < maxGaps * BoostLifetime THEN {BoostLifetime} ELSE {})

\* One stream of random draws for each set of enemies the spawner can place
PlacementStreams ==
    LET placed(st) == DOMAIN generateEnemies(level.level, screenDimension, FunctionValue, st,
                                             tdzEnforced)
    IN  {CHOOSE st \in Streams : placed(st) = d : d \in {placed(st) : st \in Streams}}

AliveEnemies == {k \in DOMAIN enemies : enemies[k].health > 0}

\* What the probe of a projectile can touch in one update
Targets(sh) ==
    {Outside}
    \cup (IF sh.kind = "shot_" THEN AliveEnemies ELSE {TankKey})
    \cup (IF sh.fresh THEN entities \cap ReachedWalls ELSE sh.walls)
Contacts(sh) == {c \in SUBSET Targets(sh) : Cardinality(c) <= MaxContacts}
ContactChoices ==
    {cs \in [1..Len(shots) -> SUBSET (ReachedWalls \cup AliveEnemies \cup {TankKey, Outside})] :
        \A i \in 1..Len(shots) : cs[i] \in Contacts(shots[i])}

SpawnDue == level.generated /\ ~level.boostSpawned /\ ~level.permanentRemoved

\* Projectiles of the registry that still move: a projectile whose callback
\* has ended keeps the position it had then
Flying == {k \in entities : \E i \in DOMAIN shots : ShotKey(shots[i]) = k}

\* The inputs of one frame.  boostRoom holds the outcomes spawnBoost can have
\* in the arena (a position found, or ten failed attempts); inReach tells
\* whether a shooter can come within shooting radius of the tank; shotSounds
\* holds what playing the shot sound can do (play, or throw).  oob holds the
\* projectiles isOutOfBounds finds outside the bounds, which lie 10 inside the
\* arena: every enemy shot that its update found outside the arena is one.
\* wallHits are the pairs of a bullet_ body and a wall body that overlap.
\* A boost placed in this frame can be touched in it only where the arena has
\* room for one.
Inputs(t, boostRoom, inReach, shotSounds) ==
  {in \in
    [stream : IF level.generated THEN {[i \in 1..StreamLen |-> <<100, 100>>]}
              ELSE PlacementStreams,
     boostFits : IF SpawnDue THEN boostRoom ELSE {FALSE},
     collisionStart : {0} \cup (IF hook = "none" \/ TankKey \notin entities THEN {}
                                ELSE world \cup (IF SpawnDue /\ TRUE \in boostRoom THEN {t}
                                                 ELSE {})),
     contacts : ContactChoices,
     inRange : IF ~inReach THEN {{}}
               ELSE IF level.generated THEN SUBSET AliveEnemies
               ELSE SUBSET {EnemyKey(i) : i \in 0..((level.level - 1) \div 2)},
     oob : SUBSET {k \in Flying : StartsWith(k, "bullet_") \/ StartsWith(k, "enemyShot_")},
     overlap : IF (BoostKey \in entities \/ (SpawnDue /\ TRUE \in boostRoom))
                  /\ TankKey \in entities
               THEN BOOLEAN ELSE {FALSE},
     wallHits : SUBSET ({k \in Flying : StartsWith(k, "bullet_")}
                          \X {w \in entities \cap ReachedWalls :
                                 StartsWith(w, "wall") \/ StartsWith(w, "random_wall")}),
     shotSound : IF bulletRef = "create-bullet" \/ inReach THEN shotSounds ELSE {"ok"}] :
    \A i \in DOMAIN shots :
        (Outside \in in.contacts[i] /\ StartsWith(ShotKey(shots[i]), "enemyShot_")
           /\ ShotKey(shots[i]) \in entities)
          => ShotKey(shots[i]) \in in.oob}

\* One frame: the GameEngine runs Physics and keeps the registry it returns
Frame(boostRoom, inReach, offsets, maxGaps, shotSounds, maxShots) ==
    /\ EngineShown
    /\ \E delta \in FrameDeltas(offsets, maxGaps) :
         \E in \in Inputs(now + delta, boostRoom, inReach, shotSounds) :
          \E f \in {Physics(now + delta, in)} :
            LET shown == f.running /\ ~f.showWinMenu /\ f.userHealth > 0
            IN  /\ Cardinality(ShotKeys(f.entities)) <= maxShots
                /\ Len(f.shots) <= maxShots
                /\ now' = now + delta
                /\ entities' = f.entities /\ boost' = f.boost /\ world' = f.world
                /\ shots' = f.shots
                /\ hook' = (IF f.early THEN hook
                            ELSE IF hook = "none" THEN "fresh" ELSE "stale")
                /\ level' = f.level /\ savedLevel' = f.savedLevel
                /\ enemies' = f.enemies /\ walls' = f.walls
                /\ orientationChange' = f.orientationChange
                /\ screenDimension' = screenDimension
                /\ bounds' = f.bounds
                /\ userHealth' = f.userHealth
                /\ showWinMenu' = f.showWinMenu /\ running' = f.running
                /\ bulletRef' = (IF shown THEN bulletRef ELSE "null")
                /\ lastTankShotTime' = f.lastTankShotTime
                /\ lastEnemyShotTimes' = f.lastEnemyShotTimes
                /\ lastUpdate' = f.lastUpdate
                /\ log' = f.log /\ calls' = f.calls /\ ownFire' = f.ownFire
                /\ genCount' = f.genCount /\ boostSpawns' = f.boostSpawns
                /\ lastCollected' = f.lastCollected
                /\ scoring' = f.scoring
    /\ UNCHANGED <<paused, tdzEnforced, pureVars>>

\* A frame in an arena too crowded for spawnBoost to place a boost
Tick == Frame({FALSE}, TRUE, CombatOffsets, MaxGaps, {"ok"}, MaxShots)

\* A frame in an arena where no shooter comes within range of the tank
TickBoost == Frame(BOOLEAN, FALSE, BoostOffsets, MaxGaps, {"ok"}, MaxShots)

\* A frame of a run long enough for the enemies to wear the tank down
TickSiege == Frame({FALSE}, TRUE, CombatOffsets, SiegeGaps, {"ok"}, MaxShots)

HostStep == log' = {} /\ calls' = {} /\ scoring' = NoScoring /\ UNCHANGED <<now, tdzEnforced, moduleVars, pureVars,
                                                    ownFire, boostSpawns, lastCollected>>

\* MenuWithOrientation.onStartGame
OnStartGame ==
    /\ MenuShown
    /\ level' = LevelRecord(savedLevel)
    /\ userHealth' = StartHealth
    /\ bulletRef' = "null"
    /\ running' = TRUE
    /\ genCount' = 0
    /\ MountEngine
    /\ HostStep
    /\ UNCHANGED <<paused, showWinMenu, enemies, walls, orientationChange, screenDimension, savedLevel>>

HandlePause ==
    /\ EngineShown
    /\ paused' = TRUE /\ running' = FALSE
    /\ bulletRef' = "null"
    /\ HostStep
    /\ UNCHANGED <<showWinMenu, userHealth, level, enemies, walls, orientationChange, screenDimension,
                   savedLevel, engineVars, genCount>>

HandleResume ==
    /\ paused /\ ~showWinMenu
    /\ paused' = FALSE /\ running' = TRUE
    /\ MountEngine
    /\ HostStep
    /\ UNCHANGED <<showWinMenu, userHealth, level, enemies, walls, orientationChange, screenDimension,
                   savedLevel, bulletRef, genCount>>

HandleMainMenu ==
    /\ showWinMenu \/ paused
    /\ paused' = FALSE /\ running' = FALSE /\ showWinMenu' = FALSE
    /\ userHealth' = StartHealth
    /\ bulletRef' = "null"
    /\ HostStep
    /\ UNCHANGED <<level, enemies, walls, orientationChange, screenDimension, savedLevel, engineVars,
                   genCount>>

HandleContinue ==
    /\ showWinMenu
    /\ level.level < MaxLevel
    /\ level' = LevelRecord(level.level + 1)
    /\ savedLevel' = level.level + 1
    /\ userHealth' = AddHealth(userHealth)
    /\ bulletRef' = "null"
    /\ showWinMenu' = FALSE /\ running' = TRUE
    /\ genCount' = 0
    /\ MountEngine
    /\ HostStep
    /\ UNCHANGED <<paused, enemies, walls, orientationChange, screenDimension>>

HandleRetry ==
    /\ GameOverShown
    /\ level' = LevelRecord(level.level)
    /\ userHealth' = StartHealth
    /\ bulletRef' = "null"
    /\ running' = TRUE
    /\ genCount' = 0
    /\ MountEngine
    /\ HostStep
    /\ UNCHANGED <<paused, showWinMenu, enemies, walls, orientationChange, screenDimension, savedLevel>>

\* GameOverMenu.onMainMenu; its setUserID stores level 1 and score 0
GameOverMainMenu ==
    /\ GameOverShown
    /\ running' = FALSE
    /\ userHealth' = StartHealth
    /\ bulletRef' = "null"
    /\ HostStep
    /\ savedLevel' = 1
    /\ UNCHANGED <<paused, showWinMenu, level, enemies, walls, orientationChange, screenDimension,
                   engineVars, genCount>>

\* handleLayout: the container reports one of the given sizes
Layout(sizes) ==
    /\ ~orientationChange
    /\ orientationChange' = TRUE
    /\ \E size \in sizes : screenDimension' = size
    /\ HostStep
    /\ UNCHANGED <<running, paused, showWinMenu, userHealth, level, enemies, walls,
                   bulletRef, savedLevel, engineVars, genCount>>

\* A layout event that reports the size the app already has
HandleLayout == Layout({screenDimension})

\* Joystick press-in and press-out
ControlBullet ==
    /\ EngineShown
    /\ \E action \in {"create-bullet", "null"} :
          /\ action # bulletRef
          /\ bulletRef' = action
    /\ HostStep
    /\ UNCHANGED <<running, paused, showWinMenu, userHealth, level, enemies, walls,
                   orientationChange, screenDimension, savedLevel, engineVars, genCount>>

Init ==
    /\ HostInit
    /\ tdzEnforced \in BOOLEAN
    /\ savedLevel \in 1..MaxLevel
    /\ call = NoCall /\ ret = FALSE /\ done = FALSE

Next ==
    \/ Tick
    \/ OnStartGame
    \/ HandlePause
    \/ HandleResume
    \/ HandleMainMenu
    \/ HandleContinue
    \/ HandleLayout
    \/ ControlBullet

Spec == Init /\ [][Next]_vars

\* The boost life cycle on its own: the fire button is never pressed and no
\* enemy comes within range, so no projectile exists
NextBoost ==
    \/ TickBoost
    \/ OnStartGame
    \/ HandlePause
    \/ HandleResume
    \/ HandleMainMenu
    \/ HandleContinue
    \/ HandleLayout

SpecBoost == Init /\ [][NextBoost]_vars

\* Defeat: the fire button is never pressed, the enemies fire until the tank
\* is worn down, and the game-over menu restarts the level or leaves it
NextSiege ==
    \/ TickSiege
    \/ OnStartGame
    \/ HandlePause
    \/ HandleResume
    \/ HandleMainMenu
    \/ HandleContinue
    \/ HandleRetry
    \/ GameOverMainMenu

SpecSiege == Init /\ [][NextSiege]_vars

----------------------------------------------------------------------------
(* The spawner applied on its own to bounded inputs *)

InitGen ==
    /\ HostInit
    /\ tdzEnforced \in BOOLEAN
    /\ savedLevel = 1
    /\ call \in [op : {"generateEnemies"}, level : 1..MaxGenLevel, stream : Streams,
                 tankPosition : {Position(TankStartX, TankStartY), FunctionValue}]
    /\ ret = EmptyMap
    /\ done = FALSE

ApplyGenerateEnemies ==
    /\ call.op = "generateEnemies"
    /\ ~done
    /\ ret' = generateEnemies(call.level, Arena, call.tankPosition, call.stream,
                              tdzEnforced)
    /\ done' = TRUE
    /\ UNCHANGED <<now, tdzEnforced, hostVars, engineVars, moduleVars, historyVars, call>>

NextGen == ApplyGenerateEnemies

SpecGen == InitGen /\ [][NextGen]_vars

(* The win test applied on its own to bounded registries *)

WinKeys == {EnemyKey(0), EnemyKey(1), Key("enemyShot_", 7), RandomWallKey(0)}

EntityChoices(key) ==
    IF StartsWith(key, "enemy_") THEN {[health |-> h] : h \in {-50, 0, 4, 100}}
    ELSE IF StartsWith(key, "random_wall") THEN {[health |-> h] : h \in {0, 100}}
    ELSE {[velocity |-> 10]}

Registries ==
    UNION { { ((TankKey :> [health |-> StartHealth]) @@ f) :
                f \in { g \in [D -> UNION {EntityChoices(k) : k \in D}] :
                          \A k \in D : g[k] \in EntityChoices(k) } } :
            D \in SUBSET WinKeys }

InitWin ==
    /\ HostInit
    /\ tdzEnforced = FALSE
    /\ savedLevel = 1
    /\ call \in [op : {"checkAllEnemiesDefeated"}, registry : Registries]
    /\ ret = FALSE
    /\ done = FALSE

ApplyCheckAllEnemiesDefeated ==
    /\ call.op = "checkAllEnemiesDefeated"
    /\ ~done
    /\ ret' = checkAllEnemiesDefeated(call.registry)
    /\ done' = TRUE
    /\ UNCHANGED <<now, tdzEnforced, hostVars, engineVars, moduleVars, historyVars, call>>

NextWin == ApplyCheckAllEnemiesDefeated

SpecWin == InitWin /\ [][NextWin]_vars

----------------------------------------------------------------------------
(* Wall generator on its own: generateBoundaryWalls with positions.         *)
(* Math.random is a stream of fractions in percent: a drawn prefix followed *)
(* for ever by every sample fraction in turn, so a while loop that waits    *)
(* for a valid draw ends exactly when some sample position is valid.        *)

WallFractions ==
    << <<0, 0>>, <<10, 10>>, <<50, 50>>, <<55, 50>>, <<90, 90>>, <<90, 10>>,
       <<10, 90>>, <<50, 90>> >>
WallPrefixes == [1..WallPrefixLen -> {WallFractions[i] : i \in DOMAIN WallFractions}]

WallDraw(prefix, n) ==
    IF n < Len(prefix) THEN prefix[n + 1]
    ELSE WallFractions[((n - Len(prefix)) % Len(WallFractions)) + 1]

NoBody == [present |-> FALSE, x |-> 0, y |-> 0]
Body(x, y) == [present |-> TRUE, x |-> x, y |-> y]
SquaredDistance(ax, ay, bx, by) == (ax - bx) * (ax - bx) + (ay - by) * (ay - by)

\* isFarEnough of generateBoundaryWalls; tank and activeBoost are the arguments of
\* the enclosing call, absent when the caller passed none
isFarEnough(newEntity, existingEntities, tank, activeBoost, minDistanceFromTank) ==
    LET minDistance == MinWallDistance
    IN  IF tank.present
           /\ SquaredDistance(newEntity.x, newEntity.y, tank.x, tank.y)
                < minDistanceFromTank * minDistanceFromTank
        THEN FALSE
        ELSE IF \E key \in DOMAIN existingEntities :
                   SquaredDistance(newEntity.x, newEntity.y,
                                   existingEntities[key].x, existingEntities[key].y)
                     < minDistance * minDistance
        THEN FALSE
        ELSE IF activeBoost.present
                /\ SquaredDistance(newEntity.x, newEntity.y, activeBoost.x, activeBoost.y)
                     < (minDistance + 80) * (minDistance + 80)
        THEN FALSE
        ELSE TRUE

\* while (!isValid): ends with a valid draw, or never ends when a whole turn
\* of the sample fractions was rejected
RECURSIVE WallLoop(_, _, _, _, _, _, _)
WallLoop(appDimensions, tank, activeBoost, randomWalls, prefix, drawn, attempts) ==
    IF attempts >= Len(prefix) + Len(WallFractions)
    THEN [isValid |-> FALSE, x |-> 0, y |-> 0, drawn |-> drawn, attempts |-> attempts]
    ELSE LET r == WallDraw(prefix, drawn)
             randomX == ((r[1] * (appDimensions.width - 64)) \div 100) + 32
             randomY == ((r[2] * (appDimensions.height - 46)) \div 100) + 23
             isValid == /\ isFarEnough([x |-> randomX, y |-> randomY], randomWalls,
                                       tank, activeBoost, MinWallTankDistance)
                        /\ randomX > 32 /\ randomX < appDimensions.width - 32
                        /\ randomY > 23 /\ randomY < appDimensions.height - 23
         IN  IF isValid
             THEN [isValid |-> TRUE, x |-> randomX, y |-> randomY,
                   drawn |-> drawn + 1, attempts |-> attempts + 1]
             ELSE WallLoop(appDimensions, tank, activeBoost, randomWalls, prefix,
                           drawn + 1, attempts + 1)

\* for (let i = 0; i < 5; i++)
RECURSIVE RandomWalls(_, _, _, _, _, _, _, _)
RandomWalls(i, appDimensions, tank, activeBoost, randomWalls, prefix, drawn, most) ==
    IF i >= NumRandomWalls
    THEN [returned |-> TRUE, walls |-> randomWalls, attempts |-> most]
    ELSE LET found == WallLoop(appDimensions, tank, activeBoost, randomWalls, prefix,
                               drawn, 0)
         IN  IF ~found.isValid
             THEN [returned |-> FALSE, walls |-> randomWalls, attempts |-> found.attempts]
             ELSE RandomWalls(i + 1, appDimensions, tank, activeBoost,
                              randomWalls @@ (RandomWallKey(i) :>
                                  [x |-> found.x, y |-> found.y, health |-> WallHealth]),
                              prefix, found.drawn, Max(most, found.attempts))

\* generateBoundaryWalls(appDimensions, tank, boost): the interior walls and
\* whether the call returned
generateBoundaryWallsAt(appDimensions, tank, activeBoost, prefix) ==
    RandomWalls(0, appDimensions, tank, activeBoost, EmptyMap, prefix, 0, 0)

SmallArena == [width |-> SmallArenaWidth, height |-> SmallArenaHeight]

\* The two calls Physics makes: level generation passes the tank, the
\* orientation branch passes only the dimensions
WallCalls ==
    [op : {"generateBoundaryWalls"}, appDimensions : {Arena, SmallArena},
     tank : {Body(TankStartX, TankStartY)}, prefix : WallPrefixes]
    \cup [op : {"generateBoundaryWalls"}, appDimensions : {Arena},
          tank : {NoBody}, prefix : WallPrefixes]

InitWalls ==
    /\ HostInit
    /\ tdzEnforced = FALSE
    /\ savedLevel = 1
    /\ call \in WallCalls
    /\ ret = [returned |-> FALSE, walls |-> EmptyMap, attempts |-> 0]
    /\ done = FALSE

ApplyGenerateBoundaryWalls ==
    /\ call.op = "generateBoundaryWalls"
    /\ ~done
    /\ ret' = generateBoundaryWallsAt(call.appDimensions, call.tank, NoBody, call.prefix)
    /\ done' = TRUE
    /\ UNCHANGED <<now, tdzEnforced, hostVars, engineVars, moduleVars, historyVars, call>>

NextWalls == ApplyGenerateBoundaryWalls

SpecWalls == InitWalls /\ [][NextWalls]_vars

----------------------------------------------------------------------------
(* Boost spawner: spawnBoost and isFarEnoughFromWalls of utils/boost.js *)

boostSize == 50
BoostMaxAttempts == 10
BoostWallDistance == 40

\* Values of the pair of Math.random() calls of one attempt, in percent
BoostFractions == {<<0, 0>>, <<10, 10>>, <<50, 50>>, <<50, 0>>, <<100, 100>>}

\* A stream of Math.random() values: the pair first up to the attempt switch,
\* the pair after from then on
BoostStreams == [first : BoostFractions, after : BoostFractions, switch : 0..BoostMaxAttempts]

BoostDraw(stream, n) == IF n < stream.switch THEN stream.first ELSE stream.after

\* Math.random() * (width - boostSize) + boostSize / 2, and the same for y
BoostPosition(appDimensions, fraction) ==
    [x |-> (fraction[1] * (appDimensions.width - boostSize)) \div 100 + boostSize \div 2,
     y |-> (fraction[2] * (appDimensions.height - boostSize)) \div 100 + boostSize \div 2]

isFarEnoughFromWalls_39(position, size, registry, minDistance) ==
    \A key \in DOMAIN registry :
        StartsWith(key, "random_wall_") \/ StartsWith(key, "wall_")
            => ~ (SquaredDistance(position.x, position.y, registry[key].x, registry[key].y)
                    < (minDistance - 1 + size \div 2) * (minDistance - 1 + size \div 2))

\* distance < minDistance + size / 2 rejects the position, for every wall key
isFarEnoughFromWalls(position, size, registry, minDistance) ==
    \A key \in DOMAIN registry :
        StartsWith(key, "random_wall_") \/ StartsWith(key, "wall_")
            => ~ (SquaredDistance(position.x, position.y, registry[key].x, registry[key].y)
                    < (minDistance + size \div 2) * (minDistance + size \div 2))

\* while (!positionValid && attempts < maxAttempts)
RECURSIVE BoostLoop(_, _, _, _, _, _)
BoostLoop(appDimensions, registry, stream, position, positionValid, attempts) ==
    IF ~positionValid /\ attempts < BoostMaxAttempts
    THEN LET drawn == BoostPosition(appDimensions, BoostDraw(stream, attempts))
         IN  BoostLoop(appDimensions, registry, stream, drawn,
                       isFarEnoughFromWalls(drawn, boostSize, registry, BoostWallDistance),
                       attempts + 1)
    ELSE [position |-> position, valid |-> positionValid,
          attempts |-> attempts]

\* spawnBoost: null, or the boost at the accepted position
spawnBoost(appDimensions, registry, stream) ==
    LET loop == BoostLoop(appDimensions, registry, stream, [x |-> 0, y |-> 0], FALSE, 0)
    IN  IF ~loop.valid
        THEN [null |-> TRUE, position |-> loop.position, size |-> boostSize,
              attempts |-> loop.attempts]
        ELSE [null |-> FALSE, position |-> loop.position, size |-> boostSize,
              attempts |-> loop.attempts]

\* The four boundary walls generateBoundaryWalls puts in the registry
BoundaryWalls(appDimensions) ==
    (BoundaryWallKey(1) :> [x |-> appDimensions.width \div 2, y |-> 5])
    @@ (BoundaryWallKey(2) :> [x |-> appDimensions.width \div 2, y |-> appDimensions.height - 5])
    @@ (BoundaryWallKey(3) :> [x |-> 5, y |-> appDimensions.height \div 2])
    @@ (BoundaryWallKey(4) :> [x |-> appDimensions.width - 5, y |-> appDimensions.height \div 2])

\* Registries spawnBoost is called with: the tank, boundary walls, interior
\* walls and enemies at chosen places
BoostRegistries ==
    { (TankKey :> [x |-> TankStartX, y |-> TankStartY]),
      BoundaryWalls(Arena) @@ (RandomWallKey(0) :> [x |-> 400, y |-> 300])
                           @@ (EnemyKey(0) :> [x |-> 100, y |-> 80]),
      BoundaryWalls(Arena) @@ (RandomWallKey(0) :> [x |-> 139, y |-> 132])
                           @@ (RandomWallKey(1) :> [x |-> 400, y |-> 300]),
      BoundaryWalls(Arena) @@ (RandomWallKey(0) :> [x |-> 139, y |-> 131])
                           @@ (TankKey :> [x |-> 775, y |-> 575]) }

InitSpawn ==
    /\ HostInit
    /\ tdzEnforced = FALSE
    /\ savedLevel = 1
    /\ call \in [op : {"spawnBoost"}, appDimensions : {Arena}, entities : BoostRegistries,
                 stream : BoostStreams]
    /\ ret = [null |-> TRUE, position |-> [x |-> 0, y |-> 0], size |-> boostSize,
              attempts |-> 0]
    /\ done = FALSE

ApplySpawnBoost ==
    /\ call.op = "spawnBoost"
    /\ ~done
    /\ ret' = spawnBoost(call.appDimensions, call.entities, call.stream)
    /\ done' = TRUE
    /\ UNCHANGED <<now, tdzEnforced, hostVars, engineVars, moduleVars, historyVars, call>>

NextSpawn == ApplySpawnBoost

SpecSpawn == InitSpawn /\ [][NextSpawn]_vars

----------------------------------------------------------------------------
(* Physics on a registry that lacks a collaborator: the physics engine, the *)
(* tank entity, or both                                                     *)

GuardCalls == {c \in [op : {"Physics"}, physics : BOOLEAN, tank : BOOLEAN] : ~(c.physics /\ c.tank)}

InitGuard ==
    /\ now = StartTime
    /\ running = TRUE /\ paused = FALSE /\ showWinMenu = FALSE
    /\ userHealth = StartHealth
    /\ savedLevel \in 1..MaxLevel
    /\ level = LevelRecord(savedLevel)
    /\ enemies = EmptyMap /\ walls = EmptyMap
    /\ orientationChange = FALSE
    /\ screenDimension = Arena
    /\ bulletRef = "null"
    /\ call \in GuardCalls
    /\ entities = (IF call.tank THEN {TankKey} ELSE {})
    /\ boost = NoBoost /\ world = {} /\ shots = <<>>
    /\ hook = "none" /\ bounds = NoBounds
    /\ lastTankShotTime = 0 /\ lastEnemyShotTimes = EmptyMap /\ lastUpdate = 0
    /\ log = {} /\ calls = {} /\ ownFire = EmptyMap
    /\ genCount = 0 /\ boostSpawns = 0
    /\ lastCollected = [id |-> 0, n |-> 0]
    /\ scoring = NoScoring
    /\ tdzEnforced \in BOOLEAN
    /\ ret = FALSE /\ done = FALSE

\* A frame on such a registry
TickGuard == Frame(BOOLEAN, FALSE, BoostOffsets, MaxGaps, {"ok"}, MaxShots)

NextGuard ==
    \/ TickGuard
    \/ HandleLayout
    \/ ControlBullet

SpecGuard == InitGuard /\ [][NextGuard]_vars

----------------------------------------------------------------------------
(* Frames in which playing the shot sound can throw inside createShot *)

TickFault == Frame({FALSE}, TRUE, CombatOffsets, MaxGaps, {"ok", "throws"}, MaxShots)

NextFault ==
    \/ TickFault
    \/ OnStartGame
    \/ ControlBullet

SpecFault == Init /\ [][NextFault]_vars

----------------------------------------------------------------------------
(* Volleys: the player fires, no enemy comes within range, and two of the   *)
(* player's projectiles can be in flight at once                            *)

TickVolley == Frame({FALSE}, FALSE, CombatOffsets, VolleyGaps, {"ok"}, VolleyShots)

NextVolley ==
    \/ TickVolley
    \/ OnStartGame
    \/ ControlBullet

SpecVolley == Init /\ [][NextVolley]_vars

----------------------------------------------------------------------------
(* Removal paths, each run twice on a registry: removeEntity of the         *)
(* projectile renderer, the two depleted-entity sweeps of Physics, the      *)
(* removal list of updateEnemyAI and the loops of collisionSystem.  A       *)
(* registry is a map from keys to entities; reading a property of the       *)
(* entity of an absent key throws.                                          *)

RemovalTime == 5100

\* Object.keys(entities), over the keys a registry of this section can hold
RemovalKeys ==
    << EnemyKey(0), EnemyKey(1), RandomWallKey(0), BoundaryWallKey(1),
       Key("enemyShot_", RemovalTime), Key("shot_", RemovalTime),
       Key("bullet_", RemovalTime) >>

\* An entity: its health, whether its body is outside the bounds, and whether
\* its body overlaps that of random_wall_0
Entity(health, out, touch) == [health |-> health, out |-> out, touch |-> touch]

\* What each key can hold; Absent stands for a key the registry does not have
Absent == Entity(-1, FALSE, FALSE)
RemovalVariants(k) ==
    IF k.kind = "enemy_" THEN {Absent, Entity(100, FALSE, FALSE), Entity(0, FALSE, FALSE)}
    ELSE IF k.kind = "random_wall_"
    THEN {Absent, Entity(100, FALSE, FALSE), Entity(50, FALSE, FALSE), Entity(0, FALSE, FALSE)}
    ELSE IF k.kind = "wall_" THEN {Entity(100, FALSE, FALSE)}
    ELSE IF k.kind = "bullet_"
    THEN {Absent, Entity(1, FALSE, FALSE), Entity(1, TRUE, FALSE), Entity(1, FALSE, TRUE)}
    ELSE {Absent, Entity(1, FALSE, FALSE), Entity(1, TRUE, FALSE)}

RemovalKeySet == {RemovalKeys[i] : i \in DOMAIN RemovalKeys}
Present(choice) == [k \in {j \in RemovalKeySet : choice[j] # Absent} |-> choice[k]]
RemovalRegistries ==
    {Present(choice) : choice \in {c \in [RemovalKeySet -> UNION {RemovalVariants(k) : k \in RemovalKeySet}] :
                                      \A k \in RemovalKeySet : c[k] \in RemovalVariants(k)}}

\* delete entities[key]
Delete(registry, key) == [k \in DOMAIN registry \ {key} |-> registry[k]]

Thrown(r) == [r EXCEPT !.thrown = TRUE]

removeEntity_unguarded(r, entityId) ==
    IF entityId \notin DOMAIN r.registry THEN Thrown(r)
    ELSE [r EXCEPT !.registry = Delete(@, entityId)]

\* removeEntity of ShotRenderer: if (entity) { ...; delete entities[entityId] }
removeEntity(r, entityId) ==
    IF entityId \in DOMAIN r.registry
    THEN [r EXCEPT !.registry = Delete(@, entityId)]
    ELSE r

\* Object.keys(entities).forEach over a snapshot of the keys: the sweep of
\* Physics for keys with the given prefix and health at or below zero
RECURSIVE SweepDepleted(_, _, _, _)
SweepDepleted(r, keys, prefix, i) ==
    IF i > Len(RemovalKeys) \/ r.thrown THEN r
    ELSE LET key == RemovalKeys[i]
         IN  SweepDepleted(
               IF key \notin keys \/ ~StartsWith(key, prefix) THEN r
               ELSE IF key \notin DOMAIN r.registry THEN Thrown(r)
               ELSE IF r.registry[key].health <= 0
               THEN [r EXCEPT !.registry = Delete(@, key)]
               ELSE r,
               keys, prefix, i + 1)

checkAndRemoveDepletedEnemiesIn(r) == SweepDepleted(r, DOMAIN r.registry, "enemy_", 1)
checkAndRemoveDepletedWallsIn(r) == SweepDepleted(r, DOMAIN r.registry, "random_wall", 1)

\* updateEnemyAI: the loop that fills entitiesToRemove
RECURSIVE EntitiesToRemove(_, _, _)
EntitiesToRemove(registry, i, total) ==
    IF i > total THEN <<>>
    ELSE (IF EnemyKey(i) \in DOMAIN registry /\ registry[EnemyKey(i)].health <= 0
          THEN <<EnemyKey(i)>> ELSE <<>>)
         \o EntitiesToRemove(registry, i + 1, total)

\* updateEnemyAI: entitiesToRemove.forEach, which reads entities[entityKey].body
RECURSIVE RemoveMarked(_, _, _)
RemoveMarked(r, marked, i) ==
    IF i > Len(marked) \/ r.thrown THEN r
    ELSE RemoveMarked(IF marked[i] \notin DOMAIN r.registry THEN Thrown(r)
                      ELSE [r EXCEPT !.registry = Delete(@, marked[i])],
                      marked, i + 1)

updateEnemyAIRemoval(r, total) ==
    RemoveMarked(r, EntitiesToRemove(r.registry, 0, total), 1)

\* collisionSystem: the loop over bullet_ and enemyShot_ keys
RECURSIVE RemoveOutOfBounds(_, _, _)
RemoveOutOfBounds(r, keys, i) ==
    IF i > Len(RemovalKeys) \/ r.thrown THEN r
    ELSE LET key == RemovalKeys[i]
         IN  RemoveOutOfBounds(
               IF key \notin keys
                  \/ ~(StartsWith(key, "bullet_") \/ StartsWith(key, "enemyShot_")) THEN r
               ELSE IF key \notin DOMAIN r.registry THEN Thrown(r)
               ELSE IF r.registry[key].out THEN [r EXCEPT !.registry = Delete(@, key)]
               ELSE r,
               keys, i + 1)

\* collisionSystem: for one wall, the loop over bullet_ keys; wall is the
\* entity read before the loop, which stays in hand after its key is deleted
RECURSIVE BulletsOnWall(_, _, _, _, _)
BulletsOnWall(r, wallKey, wall, keys, i) ==
    IF i > Len(RemovalKeys) \/ r.thrown THEN r
    ELSE LET key == RemovalKeys[i]
         IN  IF key \notin keys \/ ~StartsWith(key, "bullet_")
             THEN BulletsOnWall(r, wallKey, wall, keys, i + 1)
             ELSE IF key \notin DOMAIN r.registry THEN Thrown(r)
             ELSE IF r.registry[key].touch /\ wallKey = RandomWallKey(0)
             THEN LET hit == [wall EXCEPT !.health = @ - ShotDamage]
                      less == Delete(r.registry, key)
                  IN  BulletsOnWall(
                        [r EXCEPT !.registry =
                            IF hit.health <= 0 THEN Delete(less, wallKey)
                            ELSE IF wallKey \in DOMAIN less
                            THEN [less EXCEPT ![wallKey] = hit] ELSE less],
                        wallKey, hit, keys, i + 1)
             ELSE BulletsOnWall(r, wallKey, wall, keys, i + 1)

\* collisionSystem: the loop over wall and random_wall keys
RECURSIVE WallsLoop(_, _, _)
WallsLoop(r, keys, i) ==
    IF i > Len(RemovalKeys) \/ r.thrown THEN r
    ELSE LET key == RemovalKeys[i]
         IN  WallsLoop(
               IF key \notin keys
                  \/ ~(StartsWith(key, "wall") \/ StartsWith(key, "random_wall")) THEN r
               ELSE IF key \notin DOMAIN r.registry THEN Thrown(r)
               ELSE BulletsOnWall(r, key, r.registry[key], DOMAIN r.registry, 1),
               keys, i + 1)

collisionSystemRemoval(r) ==
    LET swept == RemoveOutOfBounds(r, DOMAIN r.registry, 1)
    IN  WallsLoop(swept, DOMAIN swept.registry, 1)

RemovalPath(r, c) ==
    CASE c.op = "removeEntity" -> removeEntity(r, c.key)
      [] c.op = "checkAndRemoveDepletedEnemies" -> checkAndRemoveDepletedEnemiesIn(r)
      [] c.op = "checkAndRemoveDepletedWalls" -> checkAndRemoveDepletedWallsIn(r)
      [] c.op = "updateEnemyAI" -> updateEnemyAIRemoval(r, 1)
      [] c.op = "collisionSystem" -> collisionSystemRemoval(r)

RemovalCalls ==
    [op : {"removeEntity"}, registry : RemovalRegistries,
     key : {Key("enemyShot_", RemovalTime), Key("shot_", RemovalTime)}]
    \cup [op : {"checkAndRemoveDepletedEnemies", "checkAndRemoveDepletedWalls",
                "updateEnemyAI", "collisionSystem"},
          registry : RemovalRegistries, key : {TankKey}]

InitRemoval ==
    /\ HostInit
    /\ tdzEnforced = FALSE
    /\ savedLevel = 1
    /\ call \in RemovalCalls
    /\ ret = [runs |-> 0, first |-> call.registry, registry |-> call.registry,
              thrown |-> FALSE]
    /\ done = FALSE

\* One run of the path on the registry the run before left
ApplyRemoval ==
    /\ call.op \in {"removeEntity", "checkAndRemoveDepletedEnemies",
                    "checkAndRemoveDepletedWalls", "updateEnemyAI", "collisionSystem"}
    /\ ~done
    /\ \E r \in {RemovalPath([registry |-> ret.registry, thrown |-> ret.thrown], call)} :
          ret' = [runs |-> ret.runs + 1,
                  first |-> IF ret.runs = 0 THEN r.registry ELSE ret.first,
                  registry |-> r.registry, thrown |-> r.thrown]
    /\ done' = (ret.runs = 1)
    /\ UNCHANGED <<now, tdzEnforced, hostVars, engineVars, moduleVars, historyVars, call>>

NextRemoval == ApplyRemoval

SpecRemoval == InitRemoval /\ [][NextRemoval]_vars

----------------------------------------------------------------------------
(* updateEnemyAI on positions.  Lengths are in units of 1/40 of a pixel, so  *)
(* that the speed of levels 1 to 3, 0.95 * 0.5 pixels, is 19 units.  The     *)
(* tank and the enemy are on one row or one column of the arena and the      *)
(* random directions are along it, where the cosine and sine of every angle  *)
(* the pass computes are -1, 0 or 1.                                         *)

AIScale == 40            \* units in a pixel
AIWidth == 600           \* appDimensions.width, in pixels
AIHeight == 400          \* appDimensions.height, in pixels
MaxAILevel == 10         \* the highest level; difficulty factor 3
MaxAICalls == 4          \* calls of updateEnemyAI in a run
AIDeltas == {50, 100, 150, 5100}   \* time between two calls

\* Math.sign
sign(n) == IF n > 0 THEN 1 ELSE IF n < 0 THEN -1 ELSE 0

\* Math.cos(Math.atan2(dy, dx)) and Math.sin(Math.atan2(dy, dx)) where dx or
\* dy is 0; atan2(0, 0) is 0
CosAtan2(dy, dx) == IF dy = 0 THEN (IF dx >= 0 THEN 1 ELSE -1) ELSE 0
SinAtan2(dy, dx) == IF dx = 0 THEN sign(dy) ELSE 0

\* Math.floor((currentLevel - 1) / 3)
difficultyFactor(currentLevel) == (currentLevel - 1) \div 3

\* baseSpeed * (1 + difficultyFactor * 0.31)
speed(currentLevel) == (19 * (100 + 31 * difficultyFactor(currentLevel))) \div 100

\* baseDetectionRadius * (1 + difficultyFactor * 0.33)
detectionRadius(currentLevel) == 2 * AIScale * (100 + 33 * difficultyFactor(currentLevel))

\* baseShootingRadius * (1 + difficultyFactor * 0.31)
shootingRadius(currentLevel) == 2 * AIScale * (100 + 31 * difficultyFactor(currentLevel))

\* 95% of the shorter side, less 2% of it for every three levels, at least 55%
minDistanceFromTank(appDimensions, currentLevel) ==
    LET shorter == Min(appDimensions.width, appDimensions.height)
    IN  Max((95 * shorter) \div 100
              - (difficultyFactor(currentLevel) * 2 * shorter) \div 100,
            (55 * shorter) \div 100)

\* calculateSquaredDistance
calculateSquaredDistance(x1, y1, x2, y2) == (x2 - x1) * (x2 - x1) + (y2 - y1) * (y2 - y1)

InDetection_strict(squaredDistanceToTank, detectionRadiusSquared) ==
    squaredDistanceToTank < detectionRadiusSquared

\* if (squaredDistanceToTank <= detectionRadiusSquared)
InDetection(squaredDistanceToTank, detectionRadiusSquared) ==
    squaredDistanceToTank <= detectionRadiusSquared

\* calculateBoundaryLimit: within 50 pixels of an edge
calculateBoundaryLimit(appDimensions, enemy) ==
    \/ enemy.x < 50 * AIScale \/ enemy.x > appDimensions.width - 50 * AIScale
    \/ enemy.y < 50 * AIScale \/ enemy.y > appDimensions.height - 50 * AIScale

keepWithinBounds_off(a, e, appDimensions) == a

\* keepWithinBounds: a body beyond 20 pixels of an edge is put on that margin
\* and gets a force of 1.5 towards the middle on the axes it was beyond
keepWithinBounds(a, e, appDimensions) ==
    LET margin == 20 * AIScale
        x == a.enemies[e].x
        y == a.enemies[e].y
        xOut == x < margin \/ x > appDimensions.width - margin
        yOut == y < margin \/ y > appDimensions.height - margin
    IN  IF xOut \/ yOut
        THEN [a EXCEPT !.enemies[e].x = Max(margin, Min(appDimensions.width - margin, x)),
                       !.enemies[e].y = Max(margin, Min(appDimensions.height - margin, y)),
                       !.enemies[e].force =
                           [x |-> IF xOut THEN sign(appDimensions.width \div 2 - x) ELSE 0,
                            y |-> IF yOut THEN sign(appDimensions.height \div 2 - y) ELSE 0]]
        ELSE a

BeyondMinDistance_always(squaredDistanceToTank, minDistanceFromTankSquared) == TRUE

\* squaredDistanceToTank > minDistanceFromTankSquared ? 1 : 0
BeyondMinDistance(squaredDistanceToTank, minDistanceFromTankSquared) ==
    squaredDistanceToTank > minDistanceFromTankSquared

\* The Pursue branch: face the tank, fire when in range and after the delay,
\* step towards the tank while farther than the minimum distance.  A throw
\* of handleShot ends the enemy's pass in its catch.
Pursue(a, t, currentLevel, appDimensions, e, squaredDistanceToTank) ==
    LET enemy == a.enemies[e]
        dx == a.tank.x - enemy.x
        dy == a.tank.y - enemy.y
        cosAngle == CosAtan2(dy, dx)
        sinAngle == SinAtan2(dy, dx)
        faced == [a EXCEPT !.enemies[e].angle = [of |-> "tank", x |-> cosAngle, y |-> sinAngle],
                           !.enemies[e].branch = "Pursue"]
        fired == IF /\ squaredDistanceToTank
                         <= shootingRadius(currentLevel) * shootingRadius(currentLevel)
                    /\ AfterDelay(t - enemy.lastShotTime, shotDelay(currentLevel))
                 THEN handleShot([faced EXCEPT !.enemies[e].lastShotTime = t],
                                 e, "enemyShot_", t, shotDelay(currentLevel))
                 ELSE faced
        movementDirection ==
            IF BeyondMinDistance(squaredDistanceToTank,
                                 minDistanceFromTank(appDimensions, currentLevel)
                                   * minDistanceFromTank(appDimensions, currentLevel))
            THEN 1 ELSE 0
    IN  IF fired.thrown THEN CatchEnemy(fired)
        ELSE keepWithinBounds(
               [fired EXCEPT
                  !.enemies[e].x = @ + movementDirection * speed(currentLevel) * cosAngle,
                  !.enemies[e].y = @ + movementDirection * speed(currentLevel) * sinAngle],
               e, appDimensions)

NoDirection == [x |-> 0, y |-> 0]

\* The Wander branch: a new random direction when there is none, near an edge
\* or after 5000 ms; then face it and step along it
Wander(a, t, currentLevel, appDimensions, e, randomDirection) ==
    LET enemy == a.enemies[e]
        turned == IF \/ enemy.direction = NoDirection
                     \/ calculateBoundaryLimit(appDimensions, enemy)
                     \/ t - enemy.lastDirectionChangeTime > 5000
                  THEN [a EXCEPT !.enemies[e].direction = randomDirection,
                                 !.enemies[e].lastDirectionChangeTime = t]
                  ELSE a
        direction == turned.enemies[e].direction
        cosAngle == CosAtan2(direction.y, direction.x)
        sinAngle == SinAtan2(direction.y, direction.x)
    IN  keepWithinBounds(
          [turned EXCEPT
             !.enemies[e].angle = [of |-> "direction", x |-> cosAngle, y |-> sinAngle],
             !.enemies[e].branch = "Wander",
             !.enemies[e].x = @ + speed(currentLevel) * cosAngle,
             !.enemies[e].y = @ + speed(currentLevel) * sinAngle],
          e, appDimensions)

\* One pass of the loop: a missing enemy is skipped, a dead one is marked for
\* removal, a live one pursues or wanders
AIEnemy(a, t, currentLevel, appDimensions, e, randomDirection) ==
    IF e \notin a.entities \/ e \notin DOMAIN a.enemies THEN a
    ELSE IF a.enemies[e].health <= 0
    THEN Logged([a EXCEPT !.marked = @ \cup {e}], "explosion")
    ELSE LET squaredDistanceToTank ==
                 calculateSquaredDistance(a.tank.x, a.tank.y,
                                          a.enemies[e].x, a.enemies[e].y)
         IN  IF InDetection(squaredDistanceToTank,
                            detectionRadius(currentLevel) * detectionRadius(currentLevel))
             THEN Pursue(a, t, currentLevel, appDimensions, e, squaredDistanceToTank)
             ELSE Wander(a, t, currentLevel, appDimensions, e, randomDirection)

\* for (let i = 0; i <= total; i++)
RECURSIVE AIEnemies(_, _, _, _, _, _, _)
AIEnemies(a, t, currentLevel, appDimensions, randomDirection, i, total) ==
    IF i > total THEN a
    ELSE AIEnemies(AIEnemy(a, t, currentLevel, appDimensions, EnemyKey(i), randomDirection),
                   t, currentLevel, appDimensions, randomDirection, i + 1, total)

\* updateEnemyAI(entities, {time}, engine, total, currentLevel, soundOn) with
\* the positions: the debounce, the stamp, the test for the tank, the loop
\* and the removal of the enemies it marked
updateEnemyAIAt(a, t, total, currentLevel, appDimensions, randomDirection) ==
    IF Debounced(t - a.lastUpdate) THEN a
    ELSE IF TankKey \notin a.entities
    THEN Logged([a EXCEPT !.lastUpdate = t],
                "Invalid entities object or required properties are missing")
    ELSE LET looped == AIEnemies([a EXCEPT !.lastUpdate = t, !.marked = {},
                                           !.executed = t, !.prevExecuted = a.executed],
                                 t, currentLevel, appDimensions, randomDirection, 0, total)
         IN  [looped EXCEPT !.entities = @ \ looped.marked]

\* Places of the enemy at the start, in pixels; the tank is in the middle
AITank == [x |-> (AIWidth \div 2) * AIScale, y |-> (AIHeight \div 2) * AIScale]
AIPlaces == {<<10, 200>>, <<99, 200>>, <<100, 200>>, <<600, 200>>, <<300, 390>>}

\* The tank near the left edge, and places of the enemy on its row at and
\* just beyond 356 pixels from it, the minimum distance of level 10 in an
\* arena 400 high
AITankLeft == [x |-> 100 * AIScale, y |-> (AIHeight \div 2) * AIScale]
StandoffPlaces == {<<456, 200>>, <<457, 200>>, <<458, 200>>}

AIEnemyAt(place) ==
    [health |-> 100, lastShotTime |-> 0, x |-> place[1] * AIScale, y |-> place[2] * AIScale,
     angle |-> [of |-> "none", x |-> 1, y |-> 0], branch |-> "none",
     direction |-> NoDirection, lastDirectionChangeTime |-> 0, force |-> NoDirection]

AICalls ==
    [op : {"updateEnemyAI"}, currentLevel : {1, MaxAILevel}, place : AIPlaces,
     other : {"absent", "alive"}, tank : {"middle"}]
    \cup [op : {"updateEnemyAI"}, currentLevel : {MaxAILevel}, place : StandoffPlaces,
          other : {"absent"}, tank : {"left"}]

\* The registry and module state the first call finds
AIStart(c) ==
    [entities |-> {TankKey, EnemyKey(0)}
                    \cup (IF c.other = "alive" THEN {EnemyKey(1)} ELSE {}),
     tank |-> IF c.tank = "left" THEN AITankLeft ELSE AITank,
     enemies |-> (EnemyKey(0) :> AIEnemyAt(c.place))
                   @@ (IF c.other = "alive" THEN EnemyKey(1) :> AIEnemyAt(<<200, 200>>)
                       ELSE EmptyMap),
     shots |-> <<>>, lastTankShotTime |-> 0, lastEnemyShotTimes |-> EmptyMap,
     ownFire |-> EmptyMap, log |-> {}, calls |-> {}, shotSound |-> "ok",
     thrown |-> FALSE, lastUpdate |-> 0, marked |-> {}, executed |-> 0,
     prevExecuted |-> 0, t |-> StartTime, n |-> 0]

\* Random directions that keep the enemy on the row or column of the tank
AIDirections(a) ==
    LET enemy == a.enemies[EnemyKey(0)]
    IN  (IF enemy.y = a.tank.y THEN {[x |-> 1, y |-> 0], [x |-> -1, y |-> 0]} ELSE {})
        \cup (IF enemy.x = a.tank.x THEN {[x |-> 0, y |-> 1], [x |-> 0, y |-> -1]} ELSE {})

InitAI ==
    /\ HostInit
    /\ tdzEnforced = FALSE
    /\ savedLevel = 1
    /\ call \in AICalls
    /\ ret = AIStart(call)
    /\ done = FALSE

\* What happened to the registry since the call before: the tank is there or
\* not, and the player's projectiles may have brought the second enemy down
BetweenCalls(a, delta, tankPresent, down) ==
    [a EXCEPT !.t = @ + delta, !.n = @ + 1, !.calls = {},
              !.entities = IF tankPresent THEN @ \cup {TankKey} ELSE @ \ {TankKey},
              !.enemies = [e \in DOMAIN @ |->
                             IF down /\ e = EnemyKey(1) THEN [@[e] EXCEPT !.health = 0]
                             ELSE @[e]]]

\* One call of updateEnemyAI, some time after the call before
ApplyUpdateEnemyAI ==
    /\ call.op = "updateEnemyAI"
    /\ ~done
    /\ \E delta \in AIDeltas, tankPresent \in BOOLEAN, randomDirection \in AIDirections(ret),
          down \in IF EnemyKey(1) \in ret.entities THEN BOOLEAN ELSE {FALSE} :
         \E a \in {BetweenCalls(ret, delta, tankPresent, down)} :
            ret' = updateEnemyAIAt(a, a.t, 1, call.currentLevel,
                                   [width |-> AIWidth * AIScale,
                                    height |-> AIHeight * AIScale],
                                   randomDirection)
    /\ done' = (ret.n + 1 >= MaxAICalls)
    /\ UNCHANGED <<now, tdzEnforced, hostVars, engineVars, moduleVars, historyVars, call>>

NextAI == ApplyUpdateEnemyAI

SpecAI == InitAI /\ [][NextAI]_vars

----------------------------------------------------------------------------
(* Rotation: the container reports a new size while the game is shown or    *)
(* paused; no enemy comes within range                                      *)

Rotated == [width |-> ArenaHeight, height |-> ArenaWidth]

\* handleLayout with the other of the two sizes
HandleRotation == Layout({Arena, Rotated} \ {screenDimension})

TickLayout == Frame({FALSE}, FALSE, CombatOffsets, MaxGaps, {"ok"}, MaxShots)

NextLayout ==
    \/ TickLayout
    \/ OnStartGame
    \/ HandlePause
    \/ HandleResume
    \/ HandleRotation
    \/ ControlBullet

SpecLayout == Init /\ [][NextLayout]_vars

----------------------------------------------------------------------------
(* Persistent storage (utils/async-storage.js).  The store maps a key to the *)
(* item under it: << >> when there is none, <<v>> for the value whose JSON   *)
(* text is stored.  JSON.stringify followed by JSON.parse gives a number     *)
(* back as it was and a level record with the fields that were defined.      *)

MaxScore == 300          \* score.current does not go above this
MaxUsers == 2            \* user ids setUserID can draw

StorageKeys ==
    {"highScores", "latestScore", "currentLevel", "currentScore", "userHealth",
     "gameState", "user_id"}

EmptyStore == [key \in StorageKeys |-> << >>]

\* AsyncStorage.setItem(key, JSON.stringify(value))
SetItem(store, key, value) == [store EXCEPT ![key] = <<value>>]

\* AsyncStorage.removeItem(key)
RemoveItem(store, key) == [store EXCEPT ![key] = << >>]

\* const s = await AsyncStorage.getItem(key); s ? JSON.parse(s) : fallback
GetItemOr(store, key, fallback) ==
    IF store[key] = << >> THEN fallback ELSE store[key][1]

\* saveLatestScore
saveLatestScore(store, score) == SetItem(store, "latestScore", score)

\* saveCurrentLevelAndScore
saveCurrentLevelAndScore(store, currentLevel, score) ==
    SetItem(SetItem(store, "currentLevel", currentLevel), "currentScore", score)

\* getCurrentLevelAndScore
getCurrentLevelAndScore(store) ==
    [level |-> GetItemOr(store, "currentLevel", [level |-> 1, generated |-> FALSE]),
     score |-> GetItemOr(store, "currentScore", 0)]

\* setUserID: the latest score and the saved progress go back to the start
\* and a new random user id is stored
setUserID(store, randomUserID) ==
    SetItem(saveCurrentLevelAndScore(saveLatestScore(store, 0),
                                     [level |-> 1, generated |-> FALSE], 0),
            "user_id", randomUserID)

----------------------------------------------------------------------------
(* Progress over sessions of the app: p is the app with its store; p.open    *)
(* says that the app is launched, p.saved is what updateLevelAndScore saved  *)
(* last, p.got what the last start of a game read, p.session counts the      *)
(* launches and p.started the games started in the session.                  *)

\* App.updateLevelAndScore
updateLevelAndScore(p, data, newScore) ==
    [p EXCEPT !.level = data, !.score = newScore,
              !.store = saveCurrentLevelAndScore(@, data, newScore),
              !.saved = [level |-> data.level, score |-> newScore]]

\* App.updateScore: the score in memory and the latest score of the store
updateScoreStored(p) ==
    [p EXCEPT !.score = @ + ScoreStep,
              !.store = saveLatestScore(@, p.score + ScoreStep)]

\* The app is not installed yet
NoProgress ==
    [open |-> FALSE, running |-> FALSE, level |-> [level |-> 1, generated |-> FALSE],
     score |-> 0, store |-> EmptyStore, saved |-> [level |-> 1, score |-> 0],
     got |-> [level |-> 1, score |-> 0], session |-> 0, started |-> 0]

MaxSessions == 2         \* launches of the app

InitProgress ==
    /\ HostInit
    /\ tdzEnforced = FALSE
    /\ savedLevel = 1
    /\ call = [op |-> "progress"]
    /\ ret = NoProgress
    /\ done = FALSE

ProgressStep(p) ==
    /\ call.op = "progress"
    /\ ret' = p
    /\ UNCHANGED <<now, tdzEnforced, hostVars, engineVars, moduleVars, historyVars,
                   call, done>>

\* The app is launched: its refs have their initial values and the effect of
\* the mount, useEffect(() => { setUserID() }, []), has run
Launch ==
    /\ ~ret.open /\ ret.session < MaxSessions
    /\ \E id \in 1..MaxUsers :
          ProgressStep([ret EXCEPT !.open = TRUE, !.running = FALSE,
                                   !.level = [level |-> 1, generated |-> FALSE],
                                   !.score = 0,
                                   !.store = setUserID(@, id),
                                   !.session = @ + 1, !.started = 0])

\* The app is closed: what it held in memory is gone, the store stays
CloseApp ==
    /\ ret.open
    /\ ProgressStep([ret EXCEPT !.open = FALSE, !.running = FALSE])

\* onStartGame of the main menu
StartGame ==
    /\ ret.open /\ ~ret.running
    /\ \E got \in {getCurrentLevelAndScore(ret.store)} :
          ProgressStep([updateLevelAndScore(ret, [level |-> got.level.level,
                                                  generated |-> FALSE], got.score)
                           EXCEPT !.running = TRUE,
                                  !.got = [level |-> got.level.level, score |-> got.score],
                                  !.started = Min(@ + 1, 2)])

\* Physics after generating the level: setCurrentLevel with generated set
LevelGenerated ==
    /\ ret.running /\ ~ret.level.generated
    /\ ProgressStep(updateLevelAndScore(ret, [ret.level EXCEPT !.generated = TRUE],
                                        ret.score))

\* An enemy is brought down
EnemyDown ==
    /\ ret.running /\ ret.level.generated /\ ret.score < MaxScore
    /\ ProgressStep(updateScoreStored(ret))

\* The level is won and handleContinue goes to the next
WinAndContinue ==
    /\ ret.running /\ ret.level.generated /\ ret.level.level < MaxLevel
    /\ ProgressStep(updateLevelAndScore(ret, [level |-> ret.level.level + 1,
                                              generated |-> FALSE], ret.score))

\* handleMainMenu from the pause menu
LeaveToMenu ==
    /\ ret.running
    /\ ProgressStep([ret EXCEPT !.running = FALSE])

\* The game is lost and onMainMenu of the game-over menu calls setUserID
LoseToMenu ==
    /\ ret.running
    /\ \E id \in 1..MaxUsers :
          ProgressStep([ret EXCEPT !.running = FALSE, !.store = setUserID(@, id)])

NextProgress ==
    \/ Launch
    \/ CloseApp
    \/ StartGame
    \/ LevelGenerated
    \/ EnemyDown
    \/ WinAndContinue
    \/ LeaveToMenu
    \/ LoseToMenu

SpecProgress == InitProgress /\ [][NextProgress]_vars

----------------------------------------------------------------------------
(* addHighScore.  A call reads the list, then the user id, then writes the   *)
(* new list: three steps, between which another call, setUserID or           *)
(* clearScores can run.  The user id 0 is the null of a store without one.   *)

MaxAdds == 3             \* calls of addHighScore in a run
MaxInFlight == 2         \* calls of addHighScore that have not completed
TopScores == 10          \* slice(0, 10)

\* highScores.findIndex(entry => entry.user_id === user_id), 0 for -1
RECURSIVE FindIndex(_, _, _)
FindIndex(highScores, user_id, i) ==
    IF i > Len(highScores) THEN 0
    ELSE IF highScores[i].user_id = user_id THEN i
    ELSE FindIndex(highScores, user_id, i + 1)

\* One entry put into a list sorted by b.score - a.score, behind the entries
\* that compare equal to it
RECURSIVE InsertByScore(_, _, _)
InsertByScore(sorted, entry, i) ==
    IF i > Len(sorted) THEN Append(sorted, entry)
    ELSE IF sorted[i].score < entry.score
    THEN SubSeq(sorted, 1, i - 1) \o <<entry>> \o SubSeq(sorted, i, Len(sorted))
    ELSE InsertByScore(sorted, entry, i + 1)

\* The entries from the i-th on, put one by one into the sorted list
RECURSIVE SortByScore(_, _, _)
SortByScore(highScores, i, sorted) ==
    IF i > Len(highScores) THEN sorted
    ELSE SortByScore(highScores, i + 1, InsertByScore(sorted, highScores[i], 1))

Sort_unsorted(highScores) == highScores

\* highScores.sort((a, b) => b.score - a.score): stable, highest score first
Sort(highScores) == SortByScore(highScores, 1, << >>)

\* .slice(0, 10)
Slice(highScores) == SubSeq(highScores, 1, Min(TopScores, Len(highScores)))

\* The list addHighScore writes, from the list and the user id it read
NewHighScores(highScores, user_id, score) ==
    LET existingIndex == FindIndex(highScores, user_id, 1)
        changed == IF existingIndex # 0
                   THEN [highScores EXCEPT ![existingIndex].score = score]
                   ELSE Append(highScores, [user_id |-> user_id, score |-> score])
    IN  Slice(Sort(changed))

\* getHighScores and getUserID
getHighScores(store) == GetItemOr(store, "highScores", << >>)
getUserID(store) == GetItemOr(store, "user_id", 0)

\* clearScores
clearScores(store) == RemoveItem(RemoveItem(store, "highScores"), "latestScore")

\* Lists the store can hold at the start: the first entries of a list of ten
\* that earlier calls of addHighScore left
FullList == [i \in 1..TopScores |-> [user_id |-> i, score |-> 100 * (TopScores + 1 - i)]]
StoredLists == {SubSeq(FullList, 1, n) : n \in {0, 1, TopScores - 1, TopScores}}
ScoreUsers == {1, TopScores, TopScores + 1}
Scores == {50, 550, 1000}

InitScores ==
    /\ HostInit
    /\ tdzEnforced = FALSE
    /\ savedLevel = 1
    /\ call \in [op : {"addHighScore"}, highScores : StoredLists]
    /\ ret = [store |-> IF call.highScores = << >> THEN EmptyStore
                        ELSE SetItem(EmptyStore, "highScores", call.highScores),
              inFlight |-> << >>, begun |-> 0, completed |-> 0]
    /\ done = FALSE

ScoresStep(r) ==
    /\ call.op = "addHighScore"
    /\ ret' = r
    /\ UNCHANGED <<now, tdzEnforced, hostVars, engineVars, moduleVars, historyVars,
                   call, done>>

\* addHighScore(score) up to its first await: getHighScores has read the list
AddHighScoreBegin ==
    /\ ret.begun < MaxAdds /\ Len(ret.inFlight) < MaxInFlight
    /\ \E score \in Scores :
          ScoresStep([ret EXCEPT !.begun = @ + 1,
                                 !.inFlight = Append(@, [pc |-> "getUserID", score |-> score,
                                                         highScores |-> getHighScores(ret.store),
                                                         user_id |-> 0])])

\* await getUserID()
AddHighScoreUser ==
    \E i \in DOMAIN ret.inFlight :
        /\ ret.inFlight[i].pc = "getUserID"
        /\ ScoresStep([ret EXCEPT !.inFlight[i].pc = "setItem",
                                  !.inFlight[i].user_id = getUserID(ret.store)])

\* The list is changed, sorted, cut and written; the call completes
AddHighScoreWrite ==
    \E i \in DOMAIN ret.inFlight :
        /\ ret.inFlight[i].pc = "setItem"
        /\ ScoresStep([ret EXCEPT
              !.store = SetItem(@, "highScores",
                                NewHighScores(ret.inFlight[i].highScores,
                                              ret.inFlight[i].user_id,
                                              ret.inFlight[i].score)),
              !.inFlight = SubSeq(@, 1, i - 1) \o SubSeq(@, i + 1, Len(@)),
              !.completed = @ + 1])

\* setUserID of a launch or of the game-over menu
ChangeUser ==
    \E id \in ScoreUsers \ {getUserID(ret.store)} :
        ScoresStep([ret EXCEPT !.store = setUserID(@, id)])

\* clearScores
ClearScores ==
    /\ getHighScores(ret.store) # << >>
    /\ ScoresStep([ret EXCEPT !.store = clearScores(@)])

NextScores ==
    \/ AddHighScoreBegin
    \/ AddHighScoreUser
    \/ AddHighScoreWrite
    \/ ChangeUser
    \/ ClearScores

SpecScores == InitScores /\ [][NextScores]_vars

----------------------------------------------------------------------------
(* clearAllGameData on a store with any of its six keys present              *)

\* keysToRemove, in the order of the loop
keysToRemove ==
    <<"highScores", "latestScore", "currentLevel", "currentScore", "userHealth",
      "gameState">>

\* for (const key of keysToRemove): an item that is there is removed and its
\* key noted
RECURSIVE RemoveKeys(_, _, _)
RemoveKeys(store, removedKeys, i) ==
    IF i > Len(keysToRemove) THEN [store |-> store, removedKeys |-> removedKeys]
    ELSE IF store[keysToRemove[i]] # << >>
    THEN RemoveKeys(RemoveItem(store, keysToRemove[i]),
                    removedKeys \cup {keysToRemove[i]}, i + 1)
    ELSE RemoveKeys(store, removedKeys, i + 1)

\* The statement after the loop: six if statements without braces, each the
\* body of the one before, with the call of resetGameState innermost
ResetReached(removedKeys) ==
    /\ "highScores" \in removedKeys
    /\ "latestScore" \in removedKeys
    /\ "currentLevel" \in removedKeys
    /\ "currentScore" \in removedKeys
    /\ "userHealth" \in removedKeys
    /\ "gameState" \in removedKeys

\* clearAllGameData(resetGameState): the store it leaves and the number of
\* times it called resetGameState
clearAllGameData(store, resetGameState) ==
    LET cleared == RemoveKeys(store, {}, 1)
    IN  [store |-> cleared.store,
         resets |-> IF ResetReached(cleared.removedKeys) /\ resetGameState THEN 1 ELSE 0]

\* Stores with each of the six keys present or absent
ClearStores ==
    {[key \in StorageKeys |->
         IF key \in present THEN <<0>> ELSE << >>] :
       present \in SUBSET {keysToRemove[i] : i \in DOMAIN keysToRemove}}

InitClear ==
    /\ HostInit
    /\ tdzEnforced = FALSE
    /\ savedLevel = 1
    /\ call \in [op : {"clearAllGameData"}, store : ClearStores, resetGameState : BOOLEAN]
    /\ ret = [store |-> call.store, resets |-> 0]
    /\ done = FALSE

ApplyClearAllGameData ==
    /\ call.op = "clearAllGameData"
    /\ ~done
    /\ ret' = clearAllGameData(call.store, call.resetGameState)
    /\ done' = TRUE
    /\ UNCHANGED <<now, tdzEnforced, hostVars, engineVars, moduleVars, historyVars, call>>

NextClear == ApplyClearAllGameData

SpecClear == InitClear /\ [][NextClear]_vars

----------------------------------------------------------------------------
(* Fire: the AI pass and the fire button of a run of frames, with up to     *)
(* three enemies within shooting radius, and every projectile still in the  *)
(* registry                                                                 *)

MaxFireCalls == 3        \* frames in a run
FireEnemies == 3         \* enemies of the level
FireDeltas == {0, 100, 500, 3100}   \* time between two frames

FireCalls == [op : {"fire"}, currentLevel : {1, MaxAILevel}]

FireStart ==
    [entities |-> {TankKey} \cup {EnemyKey(i) : i \in 0..(FireEnemies - 1)},
     enemies |-> [e \in {EnemyKey(i) : i \in 0..(FireEnemies - 1)} |->
                    [health |-> 100, lastShotTime |-> 0]],
     shots |-> <<>>, lastTankShotTime |-> 0, lastEnemyShotTimes |-> EmptyMap,
     ownFire |-> EmptyMap, log |-> {}, calls |-> {}, shotSound |-> "ok",
     thrown |-> FALSE, t |-> StartTime, n |-> 0]

InitFire ==
    /\ HostInit
    /\ tdzEnforced = FALSE
    /\ savedLevel = 1
    /\ call \in FireCalls
    /\ ret = FireStart
    /\ done = FALSE

\* One frame: the loop of updateEnemyAI over the enemies within shooting
\* radius, then the fire button
FireFrame(a, t, currentLevel, inRange, button) ==
    LET passed == AILoop([a EXCEPT !.t = t, !.n = @ + 1, !.calls = {}, !.log = {}],
                         t, shotDelay(currentLevel), inRange, 0, currentLevel)
    IN  IF button THEN handleShot(passed, TankKey, "shot_", t, PlayerDelay) ELSE passed

ApplyFire ==
    /\ call.op = "fire"
    /\ ~done
    /\ \E delta \in FireDeltas, button \in BOOLEAN,
          inRange \in SUBSET {EnemyKey(i) : i \in 0..(FireEnemies - 1)} :
         ret' = FireFrame(ret, ret.t + delta, call.currentLevel, inRange, button)
    /\ done' = (ret.n + 1 >= MaxFireCalls)
    /\ UNCHANGED <<now, tdzEnforced, hostVars, engineVars, moduleVars, historyVars, call>>

NextFire == ApplyFire

SpecFire == InitFire /\ [][NextFire]_vars

----------------------------------------------------------------------------
(* Probe: the update callback of one projectile over its life, with a probe *)
(* that can overlap more than one body in an update                         *)

MaxProbeContacts == 2    \* bodies the probe overlaps in one update
MaxProbeUpdates == 3     \* invocations of the callback in a run

ProbeCalls ==
    [op : {"update"}, kind : {"shot_", "enemyShot_"}, fresh : BOOLEAN,
     enemyHealth : {ShotDamage, 2 * ShotDamage}, wallHealth : {ShotDamage, WallHealth},
     userHealth : {TankDamage, StartHealth}]

\* The registry with two enemies, the walls and the projectile, as the
\* closure of the projectile finds it
ProbeStart(c) ==
    [entities |-> {TankKey, EnemyKey(0), EnemyKey(1), Key(c.kind, StartTime)}
                    \cup DOMAIN generateBoundaryWalls,
     enemies |-> [e \in {EnemyKey(0), EnemyKey(1)} |->
                    [health |-> c.enemyHealth, lastShotTime |-> 0]],
     walls |-> [w \in DOMAIN generateBoundaryWalls |-> [health |-> c.wallHealth]],
     shots |-> <<[kind |-> c.kind, t |-> StartTime, fresh |-> c.fresh,
                  walls |-> IF c.fresh THEN {} ELSE ReachedWalls]>>,
     spread |-> FALSE, removed |-> FALSE, gone |-> {}, log |-> {},
     scoring |-> NoScoring, userHealth |-> c.userHealth, savedLevel |-> 1, n |-> 0]

ProbeContacts ==
    {c \in SUBSET (ReachedWalls \cup {EnemyKey(0), EnemyKey(1), TankKey, Outside}) :
        Cardinality(c) <= MaxProbeContacts}

InitProbe ==
    /\ HostInit
    /\ tdzEnforced = FALSE
    /\ savedLevel = 1
    /\ call \in ProbeCalls
    /\ ret = ProbeStart(call)
    /\ done = FALSE

\* One afterUpdate event: the callback runs while it is subscribed
ShotUpdate(a, contact) ==
    IF Len(a.shots) = 0 THEN [a EXCEPT !.n = @ + 1, !.log = {}]
    ELSE AgeShots(UpdateShot([a EXCEPT !.n = @ + 1, !.log = {}, !.gone = {}], 1, contact))

ApplyShotUpdate ==
    /\ call.op = "update"
    /\ ~done
    /\ \E contact \in ProbeContacts : ret' = ShotUpdate(ret, contact)
    /\ done' = (ret.n + 1 >= MaxProbeUpdates)
    /\ UNCHANGED <<now, tdzEnforced, hostVars, engineVars, moduleVars, historyVars, call>>

NextProbe == ApplyShotUpdate

SpecProbe == InitProbe /\ [][NextProbe]_vars

----------------------------------------------------------------------------
(* Health: the player's health under hits of enemy projectiles, boosts,     *)
(* Continue, Retry and the way back to the main menu, in any order          *)

MaxHealthSteps == 9      \* events in a run

HealthStart ==
    [userHealth |-> StartHealth, entities |-> {TankKey}, removed |-> FALSE, log |-> {},
     savedLevel |-> 1, lastCollected |-> [id |-> 0, n |-> 0], n |-> 0]

InitHealth ==
    /\ HostInit
    /\ tdzEnforced = FALSE
    /\ savedLevel = 1
    /\ call = [op |-> "health"]
    /\ ret = HealthStart
    /\ done = FALSE

HealthStep(a) ==
    /\ call.op = "health"
    /\ ~done
    /\ ret' = [a EXCEPT !.n = ret.n + 1]
    /\ done' = (ret.n + 1 >= MaxHealthSteps)
    /\ UNCHANGED <<now, tdzEnforced, hostVars, engineVars, moduleVars, historyVars, call>>

\* ShotRenderer.update of an enemy projectile whose probe is on the tank
HealthHit ==
    HealthStep(HitTank([ret EXCEPT !.log = {}, !.removed = FALSE],
                       [kind |-> "enemyShot_"], {TankKey}))

\* onBoostCollected
HealthBoost == HealthStep(OnBoostCollected([ret EXCEPT !.log = {}], 1))

\* handleContinue: updateHealth(Math.min(userHealth.current + 50, 400))
HealthContinue ==
    HealthStep([ret EXCEPT !.userHealth = AddHealth(@), !.log = {"handleContinue"}])

\* handleRetry, from the game-over menu: userHealth.current = 100
HealthRetry ==
    /\ ret.userHealth <= 0
    /\ HealthStep([ret EXCEPT !.userHealth = StartHealth, !.log = {"handleRetry"}])

\* handleMainMenu, onMainMenu of the game-over menu: userHealth.current = 100
HealthMainMenu ==
    HealthStep([ret EXCEPT !.userHealth = StartHealth, !.log = {"handleMainMenu"}])

NextHealth ==
    \/ HealthHit
    \/ HealthBoost
    \/ HealthContinue
    \/ HealthRetry
    \/ HealthMainMenu

SpecHealth == InitHealth /\ [][NextHealth]_vars

----------------------------------------------------------------------------
(* updateScore called again while the handleAddHighScore of an earlier call  *)
(* has not completed.  Nothing awaits handleAddHighScore or saveLatestScore: *)
(* each is a chain of storage requests, and a chain goes on when its request *)
(* is answered.  ticket is the order in which the pending requests were      *)
(* issued; inOrder stays TRUE while every answer so far was to the oldest    *)
(* pending request.                                                          *)

MaxRush == 3             \* calls of updateScore in a run
RushLists == {SubSeq(FullList, 1, n) : n \in {0, 1, TopScores}}
RushUsers == {1, TopScores}

InitRush ==
    /\ HostInit
    /\ tdzEnforced = FALSE
    /\ savedLevel = 1
    /\ call \in [op : {"updateScore"}, highScores : RushLists, user_id : RushUsers]
    /\ ret = [store |-> SetItem(IF call.highScores = << >> THEN EmptyStore
                                ELSE SetItem(EmptyStore, "highScores", call.highScores),
                                "user_id", call.user_id),
              score |-> 0, highScores |-> << >>, inFlight |-> << >>,
              ticket |-> 0, inOrder |-> TRUE, begun |-> 0, completed |-> 0]
    /\ done = FALSE

RushStep(r) ==
    /\ call.op = "updateScore"
    /\ ret' = r
    /\ UNCHANGED <<now, tdzEnforced, hostVars, engineVars, moduleVars, historyVars,
                   call, done>>

\* The pending request of chain i is the oldest one
Oldest(inFlight, i) == \A j \in DOMAIN inFlight : inFlight[i].ticket <= inFlight[j].ticket

\* Chain i has its answer and issues its next request, or ends
Answered(r, i, pc) ==
    IF pc = "done"
    THEN [r EXCEPT !.inOrder = @ /\ Oldest(r.inFlight, i),
                   !.inFlight = SubSeq(@, 1, i - 1) \o SubSeq(@, i + 1, Len(@))]
    ELSE [r EXCEPT !.inOrder = @ /\ Oldest(r.inFlight, i),
                   !.inFlight[i].pc = pc,
                   !.inFlight[i].ticket = r.ticket + 1,
                   !.ticket = @ + 1]

\* updateScore: the score goes up, saveLatestScore and handleAddHighScore are
\* started with the new score and run up to their first await
UpdateScoreCall ==
    /\ ret.begun < MaxRush
    /\ Cardinality({i \in DOMAIN ret.inFlight : ret.inFlight[i].pc # "saveLatestScore"})
          < MaxInFlight
    /\ LET newScore == ret.score + ScoreStep
           chain(pc, n) == [pc |-> pc, score |-> newScore, highScores |-> << >>,
                            user_id |-> 0, ticket |-> ret.ticket + n]
       IN  RushStep([ret EXCEPT !.score = newScore,
                                !.begun = @ + 1,
                                !.ticket = @ + 2,
                                !.inFlight = @ \o <<chain("saveLatestScore", 1),
                                                    chain("getHighScores", 2)>>])

\* saveLatestScore: AsyncStorage.setItem('latestScore', ...) is done
SaveLatestScoreDone ==
    \E i \in DOMAIN ret.inFlight :
        /\ ret.inFlight[i].pc = "saveLatestScore"
        /\ RushStep(Answered([ret EXCEPT !.store = saveLatestScore(@, ret.inFlight[i].score)],
                             i, "done"))

\* addHighScore: let highScores = await getHighScores()
RushGetHighScores ==
    \E i \in DOMAIN ret.inFlight :
        /\ ret.inFlight[i].pc = "getHighScores"
        /\ RushStep(Answered([ret EXCEPT !.inFlight[i].highScores = getHighScores(ret.store)],
                             i, "getUserID"))

\* addHighScore: let user_id = await getUserID()
RushGetUserID ==
    \E i \in DOMAIN ret.inFlight :
        /\ ret.inFlight[i].pc = "getUserID"
        /\ RushStep(Answered([ret EXCEPT !.inFlight[i].user_id = getUserID(ret.store)],
                             i, "setItem"))

\* addHighScore: the list that was read is changed, sorted, cut and written
RushSetItem ==
    \E i \in DOMAIN ret.inFlight :
        /\ ret.inFlight[i].pc = "setItem"
        /\ RushStep(Answered([ret EXCEPT
              !.store = SetItem(@, "highScores",
                                NewHighScores(ret.inFlight[i].highScores,
                                              ret.inFlight[i].user_id,
                                              ret.inFlight[i].score))],
              i, "loadHighScores"))

\* handleAddHighScore: await loadHighScores(), the call has completed
RushLoadHighScores ==
    \E i \in DOMAIN ret.inFlight :
        /\ ret.inFlight[i].pc = "loadHighScores"
        /\ RushStep(Answered([ret EXCEPT !.highScores = getHighScores(ret.store),
                                         !.completed = @ + 1],
                             i, "done"))

NextRush ==
    \/ UpdateScoreCall
    \/ SaveLatestScoreDone
    \/ RushGetHighScores
    \/ RushGetUserID
    \/ RushSetItem
    \/ RushLoadHighScores

SpecRush == InitRush /\ [][NextRush]_vars

----------------------------------------------------------------------------
(* Properties *)

(* C1: from a shooter's handleShot call that created a projectile, a later  *)
(* call for the same shooter less than the delay afterwards adds no         *)
(* projectile and changes no cooldown state.                                *)
C1_Cooldown ==
    \A c \in calls :
        (c.prevOwn > 0 /\ c.t > c.prevOwn
                       /\ (c.t - c.prevOwn) * c.delay.den < c.delay.num)
            => ~c.created /\ ~c.changed

\* the tank asks to fire 400 ms after its last shot and nothing happens
C1_Witness ==
    \E c \in calls : /\ c.shooter = TankKey
                      /\ c.prevOwn > 0 /\ c.t - c.prevOwn = 400
                      /\ ~c.created /\ ~c.changed

(* C2: cooldowns are per shooter: a fire attempt of an enemy in range whose *)
(* own last shot is older than the interval creates a projectile whatever   *)
(* the other enemies did, and the same holds for the tank whatever the      *)
(* enemies did.                                                             *)
C2_Independent ==
    \A c \in calls :
        (c.prevOwn = 0 \/ (c.t - c.prevOwn) * c.delay.den > c.delay.num) => c.created

C4_Expiry ==
    [][now' # now =>
        /\ (BoostKey \in entities /\ lastCollected.id # boost.spawnTime
                                  /\ now' - boost.spawnTime > BoostLifetime
                => BoostKey \notin entities' /\ level'.permanentRemoved)
        /\ ("Boost removed due to time" \in log'
                => BoostKey \in entities /\ now' - boost.spawnTime > BoostLifetime)
        /\ (level.permanentRemoved => "Boost spawned" \notin log')]_vars

\* the frame after the one at age exactly 20000 ms has removed the boost
C4_Witness ==
    /\ "Boost removed due to time" \in log
    /\ BoostKey \notin entities
    /\ level.permanentRemoved
    /\ now - StartTime > BoostLifetime

(* C5, as stated: the frame in which the boost expires leaves boostSpawned  *)
(* as it was.                                                               *)
C5_ExpiryKeepsFlag ==
    [][now' # now /\ "Boost removed due to time" \in log'
            => level'.boostSpawned = level.boostSpawned]_vars

(* C5, amended: the frame in which the boost expires sets boostSpawned to   *)
(* false together with permanentRemoved to true; within a level a frame     *)
(* turns boostSpawned from true to false only by expiry or by the           *)
(* collisionStart handler.                                                  *)
C5_ExpiryResetsFlag ==
    [][now' # now =>
        /\ ("Boost removed due to time" \in log'
                => ~level'.boostSpawned /\ level'.permanentRemoved)
        /\ (level.boostSpawned /\ ~level'.boostSpawned
                => "Boost removed due to time" \in log'
                   \/ "Boost collision detected!" \in log')]_vars

\* an expired boost: the flag that was set by the spawn is clear again
C5_Witness ==
    /\ "Boost removed due to time" \in log
    /\ ~level.boostSpawned /\ level.permanentRemoved
    /\ boostSpawns = 1

(* C6: generateEnemies runs in a frame exactly when the level is not yet    *)
(* generated; that frame populates the walls and sets generated; generated  *)
(* then stays true in every frame, so the spawner runs once per level.      *)
C6_GenerateOnce ==
    /\ [](genCount <= 1)
    /\ [][now' # now =>
            /\ ("generateEnemies" \in log' <=> ~level.generated)
            /\ level'.generated
            /\ ("generateEnemies" \in log' => DOMAIN walls' # {})]_vars

\* a later frame of a generated level, in which an enemy fired
C6_Witness ==
    /\ level.generated /\ genCount = 1
    /\ "generateEnemies" \notin log
    /\ "shot" \in log

C9_WinTest ==
    done /\ call.op = "checkAllEnemiesDefeated" =>
        (ret <=> \A key \in DOMAIN call.registry :
                     key.kind = "enemy_" => call.registry[key].health <= 0)

\* an enemy at health exactly 0 beside other entries, judged defeated
C9_Witness ==
    /\ done /\ call.op = "checkAllEnemiesDefeated"
    /\ ret = TRUE
    /\ \E key \in DOMAIN call.registry :
          key.kind = "enemy_" /\ call.registry[key].health = 0
    /\ RandomWallKey(0) \in DOMAIN call.registry

(* C10: generateEnemies returns min(1 + floor((level-1)/2), 3) enemies,     *)
(* each with health 100 + 2*(level-1), when every placement succeeds, and   *)
(* never more; at level 1 on 800x600 with the tank at (100,100) exactly one *)
(* enemy of health 100.                                                     *)
C10_SpawnerCount ==
    done /\ call.op = "generateEnemies" =>
        LET wanted == Min(1 + ((call.level - 1) \div 2), 3)
            n == Cardinality(DOMAIN ret)
        IN  /\ n <= wanted
            /\ \A key \in DOMAIN ret : ret[key].health = 100 + 2 * (call.level - 1)
            /\ (call.level = 1 /\ call.tankPosition = Position(TankStartX, TankStartY)
                    => n = 1 /\ \A key \in DOMAIN ret : ret[key].health = 100)

(* C11: every enemy the spawner places when Physics invokes it lies inside  *)
(* the arena, at least the level-scaled minimum distance from the tank (85% *)
(* of the shorter side, less 2% per 3 levels, at least 45%), and at least   *)
(* 50 units from every enemy placed earlier in the call.                    *)
C11_PlacementValid ==
    done /\ call.op = "generateEnemies" /\ call.tankPosition = FunctionValue =>
        LET shorter == Min(ArenaWidth, ArenaHeight) \div 10
            bound10 == Max(shorter * 85 - ((call.level - 1) \div 3) * 2 * shorter,
                           shorter * 45)
            sq(a) == a * a
        IN  \A key \in DOMAIN ret :
              /\ ret[key].x >= 0 /\ ret[key].x <= ArenaWidth
              /\ ret[key].y >= 0 /\ ret[key].y <= ArenaHeight
              /\ (sq(ret[key].x - TankStartX) + sq(ret[key].y - TankStartY)) * 100
                    >= sq(bound10)
              /\ \A other \in DOMAIN ret :
                    other.id < key.id =>
                        sq(ret[key].x - ret[other].x) + sq(ret[key].y - ret[other].y)
                            >= sq(50)

(* C12: generateBoundaryWalls returns for every arena and tank position,    *)
(* trying each interior wall at most 10 times.                              *)
C12_WallsTerminate ==
    done /\ call.op = "generateBoundaryWalls" =>
        ret.returned /\ ret.attempts <= MaxAttempts

(* C13: every interior wall that generateBoundaryWalls produces, for level  *)
(* generation and for an orientation change, is at least 160 units from the *)
(* tank and at least 70 units from the other interior walls of the call.    *)
C13_WallsValid ==
    done /\ call.op = "generateBoundaryWalls" /\ ret.returned =>
        \A key \in DOMAIN ret.walls :
            /\ SquaredDistance(ret.walls[key].x, ret.walls[key].y,
                               TankStartX, TankStartY) >= 160 * 160
            /\ \A other \in DOMAIN ret.walls \ {key} :
                  SquaredDistance(ret.walls[key].x, ret.walls[key].y,
                                  ret.walls[other].x, ret.walls[other].y) >= 70 * 70

\* C14: spawnBoost returns null or a boost at least 40 + 25 = 65 units from the
\* centre of every wall entity of the registry (keys wall_* and random_wall_*);
\* it makes at most 10 attempts, and returns null exactly when all 10 attempts
\* drew a position less than 65 units from some wall.
C14_SpawnBoost ==
    done /\ call.op = "spawnBoost" =>
        /\ ret.attempts <= 10
        /\ ~ret.null =>
              \A key \in DOMAIN call.entities :
                  key.kind \in {"wall_", "random_wall_"} =>
                      SquaredDistance(ret.position.x, ret.position.y,
                                      call.entities[key].x, call.entities[key].y)
                        >= (40 + 25) * (40 + 25)
        /\ ret.null <=>
              \A n \in 0..9 :
                  \E key \in DOMAIN call.entities :
                      /\ key.kind \in {"wall_", "random_wall_"}
                      /\ SquaredDistance(
                             BoostPosition(call.appDimensions, BoostDraw(call.stream, n)).x,
                             BoostPosition(call.appDimensions, BoostDraw(call.stream, n)).y,
                             call.entities[key].x, call.entities[key].y)
                           < (40 + 25) * (40 + 25)

\* A boost accepted on the tenth attempt, exactly 65 units from an interior wall
C14_Witness ==
    /\ done
    /\ call.op = "spawnBoost"
    /\ ~ret.null
    /\ ret.attempts = 10
    /\ \E key \in DOMAIN call.entities :
          /\ key.kind = "random_wall_"
          /\ SquaredDistance(ret.position.x, ret.position.y,
                             call.entities[key].x, call.entities[key].y) = 65 * 65

\* C15: a frame on a registry without the physics engine or without the tank
\* is a no-op: the registry, the level state, the boost, the enemies and the
\* walls stay as they were, and the physics engine is not advanced.
C15_AbsentNoOp ==
    [][(call.op = "Physics" /\ (~call.physics \/ ~call.tank) /\ now' # now)
          => /\ entities' = entities
             /\ level' = level
             /\ boost' = boost /\ world' = world
             /\ enemies' = enemies /\ walls' = walls
             /\ "Engine.update" \notin log']_vars

\* C16: an exception inside one sub-step of a frame is caught at the boundary
\* of that sub-step: every frame advances the engine, and a frame that logged
\* an exception still ran the sub-steps after it (the collision listener is
\* registered and collisionSystem ran).
C16_FaultContained ==
    [][now' # now
          => /\ "Engine.update" \in log'
             /\ (log' \cap {"Error in Physics update", "Error updating enemy"} # {}
                   => hook' # "none" /\ "collisionSystem" \in log')]_vars

\* C17: an enemy projectile that meets the tank while the player's health is
\* above 0 takes exactly 25 and is removed; when that hit brings the health to
\* 0 or below, the explosion and setUserID happen in that same hit; a hit at
\* health 0 or below takes nothing.
C17_TankHit ==
    [][(now' # now /\ "collision" \in log' /\ userHealth' # userHealth)
          => /\ userHealth > 0
             /\ userHealth' = userHealth - 25
             /\ \E j \in DOMAIN shots :
                   /\ shots[j].kind = "enemyShot_"
                   /\ \A i \in DOMAIN shots' : shots'[i].t # shots[j].t
             /\ (userHealth' <= 0 => {"explosion", "setUserID"} \subseteq log')]_vars

\* C18: in every frame the score grows by 100 for each enemy whose health a
\* projectile of the player took from above 0 to 0 or below in that frame,
\* and by nothing else, however many projectiles met that enemy in the frame.
C18_ScoreOnce ==
    [][now' # now
          => scoring'.added
               = 100 * Cardinality({e \in DOMAIN enemies \cap DOMAIN enemies' :
                                       enemies[e].health > 0 /\ enemies'[e].health <= 0})]_vars

\* A frame in which two projectiles met the same enemy and the score grew by 100
C18_Witness ==
    /\ scoring.hits >= 2
    /\ scoring.added = 100
    /\ \E e \in DOMAIN enemies :
          /\ enemies[e].health <= 0
          /\ \A o \in DOMAIN enemies \ {e} : enemies[o].health = 100

\* C19: when a projectile meets an interior wall in a frame, the wall's health
\* goes down by exactly 50, the wall is out of the registry the frame returns
\* if and only if its health is then 0 or below, and the projectile is out of
\* that registry whether or not the wall was destroyed.
C19_WallHit ==
    [][(now' # now /\ Len(shots) = 1)
          => \A w \in DOMAIN walls \cap DOMAIN walls' :
                walls'[w].health < walls[w].health
                  => /\ walls'[w].health = walls[w].health - 50
                     /\ (w \notin entities' <=> walls'[w].health <= 0)
                     /\ ShotKey(shots[1]) \notin entities']_vars

\* C20: the registry a frame returns holds no projectile whose position is
\* outside the arena: a projectile that an update of the frame found outside
\* is not in the returned registry.
C20_OutOfBounds ==
    [][(now' # now /\ Len(shots) = 1 /\ "outside" \in log')
          => ShotKey(shots[1]) \notin entities']_vars

C22_RemoveTwice ==
    (call.op \in {"removeEntity", "checkAndRemoveDepletedEnemies",
                  "checkAndRemoveDepletedWalls", "updateEnemyAI", "collisionSystem"}
       /\ ret.runs = 2)
      => ~ret.thrown /\ ret.registry = ret.first

\* A second run of removeEntity after the first run removed the projectile
C22_Witness ==
    /\ call.op = "removeEntity"
    /\ ret.runs = 2
    /\ call.key \in DOMAIN call.registry
    /\ call.key \notin DOMAIN ret.first

C24_BoundaryWalls ==
    [][\A i \in 1..4 :
         /\ BoundaryWallKey(i) \in DOMAIN walls'
              => walls'[BoundaryWallKey(i)].health = WallHealth
         /\ (now' # now /\ BoundaryWallKey(i) \in entities)
              => BoundaryWallKey(i) \in entities']_vars

\* a projectile went through an update with a boundary wall within its reach
C24_Witness ==
    \E i \in DOMAIN shots :
        /\ ~shots[i].fresh
        /\ BoundaryWallKey(1) \in shots[i].walls
        /\ BoundaryWallKey(1) \in entities
        /\ walls[BoundaryWallKey(1)].health = WallHealth


\* C25: two executions of the body of the AI pass are at least 150 ms of
\* frame time apart, and a call of updateEnemyAI less than 150 ms after the
\* last executed pass changes no enemy's position, angle, direction or
\* cooldown, fires nothing and removes no entity.
C25_Debounce ==
    [][(call.op = "updateEnemyAI" /\ ret'.n = ret.n + 1)
         => /\ ret'.prevExecuted > 0
                => ret'.executed - ret'.prevExecuted >= 150
            /\ (ret.executed > 0 /\ ret'.t - ret.executed < 150)
                => \E a \in {[ret EXCEPT !.t = ret'.t, !.n = ret'.n, !.calls = {},
                                      !.entities = ret'.entities,
                                      !.enemies = [e \in DOMAIN @ |->
                                          [@[e] EXCEPT !.health = ret'.enemies[e].health]]]} :
                      /\ ret' = a
                      /\ ret'.entities \ {TankKey} = ret.entities \ {TankKey}]_vars

\* a call 100 ms after an executed pass found the second enemy down and the
\* first where the pass had left it, and left both in the registry
C25_Witness ==
    /\ call.op = "updateEnemyAI"
    /\ ret.executed > 0 /\ ret.t - ret.executed = 100
    /\ TankKey \in ret.entities
    /\ EnemyKey(1) \in ret.entities /\ ret.enemies[EnemyKey(1)].health <= 0
    /\ ret.enemies[EnemyKey(0)].branch = "Wander"


\* C26: on an executed AI pass a live enemy whose squared distance to the tank
\* is above the squared detection radius takes the Wander branch, where it
\* neither faces the tank nor fires, and an enemy at or below it takes the
\* Pursue branch; squared distance 90,000 with detection radius 200 is Wander.
C26_PursueOrWander ==
    [][(call.op = "updateEnemyAI" /\ ret'.n = ret.n + 1 /\ ret'.executed = ret'.t)
         => LET before == ret.enemies[EnemyKey(0)]
                after == ret'.enemies[EnemyKey(0)]
                squared == (ret.tank.x - before.x) * (ret.tank.x - before.x)
                            + (ret.tank.y - before.y) * (ret.tank.y - before.y)
                radius == 2 * AIScale * (100 + 33 * ((call.currentLevel - 1) \div 3))
            IN  IF squared > radius * radius
                THEN /\ after.branch = "Wander" /\ after.angle.of = "direction"
                     /\ after.lastShotTime = before.lastShotTime
                     /\ \A c \in ret'.calls : c.shooter # EnemyKey(0)
                ELSE /\ after.branch = "Pursue" /\ after.angle.of = "tank"
                     /\ after.angle.x = CosAtan2(ret.tank.y - before.y, ret.tank.x - before.x)
                     /\ after.angle.y = SinAtan2(ret.tank.y - before.y, ret.tank.x - before.x)]_vars

\* the enemy 300 pixels from the tank, squared distance 90,000, after its
\* first pass, and the enemy exactly 200 pixels away after its first pass
C26_Witness ==
    /\ call.op = "updateEnemyAI" /\ ret.n = 1 /\ ret.executed = ret.t
    /\ \/ /\ call.place = <<600, 200>>
          /\ (AITank.x - 600 * AIScale) * (AITank.x - 600 * AIScale)
                = 90000 * AIScale * AIScale
          /\ ret.enemies[EnemyKey(0)].branch = "Wander"
       \/ /\ call.place = <<100, 200>>
          /\ ret.enemies[EnemyKey(0)].branch = "Pursue"
          /\ Len(ret.shots) = 1


\* C27: the bounds of the arena follow the layout: the bounds a frame uses for
\* its containment and out-of-bounds checks are the dimensions the screen has
\* at that frame, inset by 10 on every side, also after a layout change that
\* altered the dimensions.
C27_BoundsFollowLayout ==
    [][(now' # now /\ bounds' # NoBounds)
          => bounds' = [min |-> [x |-> 10, y |-> 10],
                        max |-> [x |-> screenDimension.width - 10,
                                 y |-> screenDimension.height - 10]]]_vars


\* C28: saved progress survives a restart: the first game started after the
\* app was closed and launched again gets from getCurrentLevelAndScore the
\* level and the score that were saved last during play, and resumes there.
C28_ProgressSurvives ==
    [][(call.op = "progress" /\ ret.session >= 2 /\ ret.started = 0
          /\ ret'.started = 1)
          => /\ ret'.got = ret.saved
             /\ ret'.level.level = ret.saved.level /\ ret'.score = ret.saved.score]_vars


\* C29: after any sequence of completed addHighScore calls the stored list of
\* high scores has at most 10 entries, is sorted by score from the highest
\* down, and has at most one entry for a user_id.
C29_HighScores ==
    call.op = "addHighScore" =>
        LET stored == IF ret.store["highScores"] = << >> THEN << >>
                      ELSE ret.store["highScores"][1]
        IN  /\ Len(stored) <= 10
            /\ \A i, j \in DOMAIN stored :
                  /\ i < j => stored[i].score >= stored[j].score
                  /\ i # j => stored[i].user_id # stored[j].user_id

\* a full list took a new user between its entries, and a user already in a
\* list got the new score in place
C29_Witness ==
    /\ call.op = "addHighScore" /\ ret.completed >= 1 /\ ret.store["highScores"] # << >>
    /\ LET stored == ret.store["highScores"][1]
       IN  \/ /\ Len(call.highScores) = 10 /\ Len(stored) = 10
              /\ \E i \in 2..9 : stored[i].user_id = 11 /\ stored[i].score = 550
           \/ /\ Len(call.highScores) = 9 /\ Len(stored) = 9
              /\ stored[9].user_id = 1 /\ stored[9].score = 50


\* C30: clearAllGameData(resetGameState) calls resetGameState exactly once,
\* after the stored game data is cleared, whichever of the six storage keys
\* were present before.
C30_ResetOnce ==
    (call.op = "clearAllGameData" /\ call.resetGameState /\ done)
        => /\ ret.resets = 1
           /\ \A i \in DOMAIN keysToRemove : ret.store[keysToRemove[i]] = << >>

(* C31: in a frame in which a projectile takes the last enemy with health   *)
(* above zero to zero or below, setWin(true) is raised in that frame, and   *)
(* before the AI pass and the player's input: every handleShot call of the  *)
(* frame finds the win already signalled.                                   *)
C31_WinSameTick ==
    [][(/\ level.generated /\ level'.level = level.level
        /\ DOMAIN enemies' = DOMAIN enemies
        /\ \E e \in DOMAIN enemies : enemies[e].health > 0
        /\ \A e \in DOMAIN enemies' : enemies'[e].health <= 0)
            => /\ "setWin" \in log' /\ showWinMenu'
               /\ \A c \in calls' : c.won]_vars

\* the projectile that scores brings the last enemy down, the win menu is up,
\* and the fire button of the same frame is served after the signal
C31_Witness ==
    /\ {"setWin", "explosion", "updateScore"} \subseteq log
    /\ showWinMenu
    /\ \A e \in DOMAIN enemies : enemies[e].health <= 0
    /\ \E c \in calls : c.shooter = TankKey /\ c.won

(* C32: the win is signalled only for a level that was generated with at    *)
(* least one enemy, all of whose enemies are at zero or below; a level for  *)
(* which the spawner produced no enemy is not reported as won.              *)
C32_WinNeedsEnemies ==
    "setWin" \in log =>
        /\ level.generated
        /\ DOMAIN enemies # {}
        /\ \A e \in DOMAIN enemies : enemies[e].health <= 0

AIDistance(a, e) ==
    LET dx == a.tank.x - a.enemies[e].x
        dy == a.tank.y - a.enemies[e].y
    IN  (IF dx < 0 THEN -dx ELSE dx) + (IF dy < 0 THEN -dy ELSE dy)

\* An executed pass took a live enemy that stood within the margin of
\* keepWithinBounds through the Pursue branch
Pursued(e) ==
    /\ call.op = "updateEnemyAI" /\ ret'.n = ret.n + 1 /\ ret'.executed = ret'.t
    /\ e \in DOMAIN ret.enemies /\ e \in ret'.entities /\ ret'.enemies[e].health > 0
    /\ ret'.enemies[e].branch = "Pursue"
    /\ InDetection(AIDistance(ret, e) * AIDistance(ret, e),
                   detectionRadius(call.currentLevel) * detectionRadius(call.currentLevel))
    /\ 20 * AIScale <= ret.enemies[e].x /\ ret.enemies[e].x <= (AIWidth - 20) * AIScale
    /\ 20 * AIScale <= ret.enemies[e].y /\ ret.enemies[e].y <= (AIHeight - 20) * AIScale

\* The minimum distance of the call: 95% of the shorter side, less 2% for
\* every three levels, at least 55%
Standoff ==
    minDistanceFromTank([width |-> AIWidth * AIScale, height |-> AIHeight * AIScale],
                        call.currentLevel)

\* The pass moved the enemy one step of its speed towards the tank
SteppedCloser(e) ==
    /\ AIDistance(ret', e) = AIDistance(ret, e) - speed(call.currentLevel)
    /\ (ret'.enemies[e].x = ret.enemies[e].x \/ ret'.enemies[e].y = ret.enemies[e].y)

SamePlace(e) ==
    ret'.enemies[e].x = ret.enemies[e].x /\ ret'.enemies[e].y = ret.enemies[e].y

(* C34: in Pursue an enemy is moved towards the tank on an executed pass    *)
(* exactly when its squared distance to the tank is above the squared       *)
(* minimum distance, and is left where it is otherwise; so its own movement *)
(* never brings a pursuing enemy within the minimum distance.               *)
C34_Standoff ==
    [][\A e \in {EnemyKey(0), EnemyKey(1)} :
          Pursued(e) =>
             /\ IF AIDistance(ret, e) * AIDistance(ret, e) > Standoff * Standoff
                THEN SteppedCloser(e) ELSE SamePlace(e)
             /\ SteppedCloser(e) => AIDistance(ret', e) >= Standoff]_vars

(* C34, amended: in Pursue an enemy is moved towards the tank on an         *)
(* executed pass exactly when its squared distance to the tank is above the *)
(* squared minimum distance, and is left where it is otherwise; its own     *)
(* movement brings a pursuing enemy less than one step of its speed within  *)
(* the minimum distance, and no further.                                    *)
C34_StandoffWithinStep ==
    [][\A e \in {EnemyKey(0), EnemyKey(1)} :
          Pursued(e) =>
             /\ IF AIDistance(ret, e) * AIDistance(ret, e) > Standoff * Standoff
                THEN SteppedCloser(e) ELSE SamePlace(e)
             /\ SteppedCloser(e)
                   => AIDistance(ret', e) > Standoff - speed(call.currentLevel)]_vars

\* the enemy that began 357 pixels from the tank stands less than a step
\* within the minimum distance and pursues without moving
C34_Witness ==
    /\ call.op = "updateEnemyAI" /\ call.tank = "left" /\ call.place = <<457, 200>>
    /\ ret.executed = ret.t /\ ret.n >= 3
    /\ ret.enemies[EnemyKey(0)].branch = "Pursue"
    /\ AIDistance(ret, EnemyKey(0)) < Standoff
    /\ AIDistance(ret, EnemyKey(0)) > Standoff - speed(call.currentLevel)

(* C35: a fire that succeeds never overwrites a projectile: the key         *)
(* <prefix>_<currentTime> that handleShot assigns is not in the registry    *)
(* already, whatever the order of the shots of the player and of up to      *)
(* three enemies.                                                           *)
C35_FreshKey ==
    call.op = "fire" =>
        /\ \A c \in ret.calls : ~c.overwrote
        /\ \A i, j \in DOMAIN ret.shots :
              i # j => ShotKey(ret.shots[i]) # ShotKey(ret.shots[j])

\* the player and an enemy fired in one frame while an earlier projectile of
\* each was still in the registry
C35_Witness ==
    /\ call.op = "fire"
    /\ \E c, d \in ret.calls :
          c.shooter = TankKey /\ d.shooter # TankKey /\ c.created /\ d.created
    /\ \E i, j \in DOMAIN ret.shots :
          /\ ret.shots[i].kind = "shot_" /\ ret.shots[i].t < ret.t
          /\ ret.shots[j].kind = "enemyShot_" /\ ret.shots[j].t < ret.t

\* The entities whose health the projectile has reduced
Damaged ==
    {e \in DOMAIN ret.enemies : ret.enemies[e].health < call.enemyHealth}
    \cup {w \in DOMAIN ret.walls : ret.walls[w].health < call.wallHealth}
    \cup (IF ret.userHealth < call.userHealth THEN {TankKey} ELSE {})

(* C36: one projectile damages at most one entity: once it has hit an enemy *)
(* or an interior wall and been removed it reduces the health of no other   *)
(* enemy or wall and not that of the tank, in the same update or later.     *)
C36_OneTarget == call.op = "update" => Cardinality(Damaged) <= 1

(* C37: after any sequence of hits, boosts, continues and retries the       *)
(* player's health is an integer from 0 to 400: a hit takes 25 only while   *)
(* the health is above zero, and a boost and a level-up each add 50, capped *)
(* at 400.                                                                  *)
C37_HealthRange == call.op = "health" => ret.userHealth \in 0..MaxUserHealth

\* a boost or a level-up found the health at 400 and left it there, or a hit
\* found it at zero and left it there
C37_Witness ==
    /\ call.op = "health"
    /\ \/ /\ ret.userHealth = MaxUserHealth /\ ret.n > 6
          /\ ret.log \cap {"Boost collected", "handleContinue"} # {}
       \/ ret.userHealth = 0 /\ "explosion" \in ret.log



\* The score of the current user's entry in the stored list, -1 for no entry
StoredScore ==
    LET stored == getHighScores(ret.store)
        existingIndex == FindIndex(stored, call.user_id, 1)
    IN  IF existingIndex = 0 THEN -1 ELSE stored[existingIndex].score

\* Every updateScore of a run of two or more has completed
RushOver == call.op = "updateScore" /\ ret.begun >= 2 /\ ret.inFlight = << >>

\* C38: when updateScore is called several times in quick succession, each
\* starting an un-awaited addHighScore, then once all of them have completed
\* the current user's stored high-score entry equals the final score.
C38_FinalScoreStored == RushOver => StoredScore = ret.score

\* The same with every storage request answered in the order of issue
C38_AnsweredInOrder == (RushOver /\ ret.inOrder) => StoredScore = ret.score

====
